---------------------------- MODULE Spec2Model ----------------------------
(***************************************************************************)
(* Model of the test-result core of the web-test-runner extension:         *)
(*   - HierarchicalReporter (src/src/testController.ts, lines 292-393)     *)
(*   - TestResultParser.parseTestResults (src/src/testResultParser.ts)     *)
(***************************************************************************)
EXTENDS Integers, Sequences, FiniteSets, TLC

VARIABLES
    \* ---- HierarchicalReporter instance ----
    suiteStack,     \* this.suiteStack: ids of SuiteResult objects, bottom first
    suites,         \* SuiteResult objects created so far, in creation order
    tests,          \* TestResult objects created so far, in creation order
    suiteCount,     \* this.suiteCount
    onceRunBegin,   \* the runner.once(EVENT_RUN_BEGIN) listener is still registered
    onceRunEnd,     \* the runner.once(EVENT_RUN_END) listener is still registered
    reports,        \* the reports handed to setResult, in call order
    thrown,         \* what the handler of the last event threw ("none" if nothing)
    \* ---- the event stream seen so far (the runner's side) ----
    open,           \* non-root suite-begin events minus non-root suite-end events
    maxOpen,        \* the largest value open has had
    balanced,       \* no non-root suite-end has arrived while no non-root suite was open
    mismatched,     \* the last event was such a mismatched suite-end
    nBegins,        \* number of non-root suite-begin events
    nTests,         \* number of test-pass, test-fail and test-pending events
    nRunEnds,       \* number of run-end events
    openStack,      \* the non-root suites begun and not yet ended, innermost last
                    \* (the node of each, Undefined for a suite that got none)
    started,        \* a run-begin event has arrived
    nSince,         \* non-root suite-begin events since the first run-begin event
    \* ---- one call of TestResultParser.parseTestResults ----
    segs,           \* the kinds of the pieces the text is made of (see PieceText)
    output,         \* the `output` argument, a sequence of code points
    pc,             \* position in the call: "idle", "start", "lines", "failures", "done"
    cleanOutput,    \* const cleanOutput
    results,        \* const results: the Map, a function from its keys to its entries
    lastIndex,      \* failureRegex.lastIndex (1-based: the next position to try)
    calls,          \* the calls of parseTestResults that returned: [segs, results]
    \* ---- one call of TestController.updateTestItemResults ----
    items,          \* the test items below the target item: [label, parent], in the
                    \* order of their collections (item 0 is the target item)
    resultMap,      \* the `results` argument
    frames,         \* the call stack: [item, next] per active call of the method
    outcomes,       \* the calls run.passed / run.failed made so far, in order
    cpc,            \* "idle", "run" or "done"
    \* ---- one call of TestDiscovery.populateTestItemsFromReport ----
    report,         \* report.root as a flat tree: [suites, tests], each node [title, parent]
    created,        \* the calls of createTestItem so far: [id, label, parent, kind, node]
    tree,           \* the items now in the collections below the file item: [id, label, parent]
    pframes,        \* the call stack: [item (an id), node, next] per active call
    ppc,            \* "idle", "run" or "done"
    \* ---- one call of TestDiscovery.discoverTestsFromFile / runMochaForFile ----
    mochaOutput,    \* let output: what the process has written to stdout so far
    promise,        \* the promise runMochaForFile returned: "none", "pending", "null", "report"
    closeThrew,     \* the close handler has thrown
    mpc,            \* "idle", "call", "spawned" or "closed"
    fileResult,     \* discoverTestsFromFile: "waiting", "populated", "noTests", "caught"
    \* ---- one call of the run handler of TestController ----
    rpc,            \* "idle", "collect", "loop", "await", "finally", "returned", "thrown"
    allTests,       \* number of items of allTests
    ri,             \* position of the for loop of line 99
    cancelRequested,\* cancellation.isCancellationRequested
    cancelObserved, \* the loop has seen the cancellation and left (line 101)
    collectThrew,   \* an exception left the try block of line 88
    settled,        \* how the promise of runTestFile settled, per item run
    runLog,         \* the calls made on the TestRun, in order
    \* ---- one call of TestDiscovery.discoverTests ----
    dpc,            \* "idle", "call", "find"; the promise has resolved: "noFolder", "resolved"
    configs,        \* the config files found, each with its groups and files per group
    cfgPc,          \* where the forEach callback of each config file stands
    dtree,          \* the ids of the items in the tree of the controller
    addedLate,      \* an item was added after the promise of discoverTests resolved
    \* ---- one run of web-test-runner by TestRunner.executeWebTestRunner ----
    wtrOutput,      \* let output: what the process wrote to stdout
    wtrErrorOutput, \* the process wrote to stderr
    wtrSuccess,     \* code === 0
    wtrResult,      \* <<>>, or <<the TestRunResult the promise resolved with>>
    wtrPc           \* "idle", "running" or "closed"

reporterVars == <<suiteStack, suites, tests, suiteCount, onceRunBegin, onceRunEnd,
                  reports, thrown>>
streamVars == <<open, maxOpen, balanced, mismatched, nBegins, nTests, nRunEnds,
                openStack, started, nSince>>
parserVars == <<segs, output, pc, cleanOutput, results, lastIndex, calls>>
correlatorVars == <<items, resultMap, frames, outcomes, cpc>>
populateVars == <<report, created, tree, pframes, ppc>>
mochaVars == <<mochaOutput, promise, closeThrew, mpc, fileResult>>
runVars == <<rpc, allTests, ri, cancelRequested, cancelObserved, collectThrew,
             settled, runLog>>
discoverVars == <<dpc, configs, cfgPc, dtree, addedLate>>
wtrVars == <<wtrOutput, wtrErrorOutput, wtrSuccess, wtrResult, wtrPc>>
hostVars == <<populateVars, mochaVars, runVars, discoverVars, wtrVars>>
vars == <<reporterVars, streamVars, parserVars, correlatorVars, hostVars>>

\* ------------------------------------------------------------------ bounds
MaxSuites == 2
MaxTests == 2
MaxRunEnds == 2
MaxPieces == 4
MaxLines == 3
MaxCalls == 3
MaxItems == 3
MaxReportSuites == 2
MaxReportTests == 2
MaxOutput == 4
MaxRunItems == 2
MaxConfigs == 2
MaxGroups == 2
MaxFiles == 1
MaxText == 5
Titles == {"a"}

\* ------------------------------------------------------- HierarchicalReporter
\* rootSuite is object 0; suites[i] is object i.  A SuiteResult's `suites` and
\* `tests` arrays are the objects whose parent it is, in creation order (the
\* code only ever appends with push).
Root == 0

Max(a, b) == IF a >= b THEN a ELSE b

\* currentSuite = this.suiteStack[this.suiteStack.length - 1]; undefined on an
\* empty array.
Undefined == -1
CurrentSuite == IF Len(suiteStack) = 0 THEN Undefined ELSE suiteStack[Len(suiteStack)]

\* Array.prototype.pop: removes the last element, a no-op on an empty array.
Pop(s) == IF Len(s) = 0 THEN s ELSE SubSeq(s, 1, Len(s) - 1)

ChildSuites(s) == {i \in 1..Len(suites) : suites[i].parent = s}
ChildTests(s) == {i \in 1..Len(tests) : tests[i].parent = s}

\* the state of a reporter right after its constructor has run
NewReporter ==
    /\ suiteStack = <<Root>>
    /\ suites = <<>>
    /\ tests = <<>>
    /\ suiteCount = 0
    /\ onceRunBegin = TRUE
    /\ onceRunEnd = TRUE
    /\ reports = <<>>
    /\ thrown = "none"
    /\ open = 0
    /\ maxOpen = 0
    /\ balanced = TRUE
    /\ mismatched = FALSE
    /\ nBegins = 0
    /\ nTests = 0
    /\ nRunEnds = 0
    /\ openStack = <<>>
    /\ started = FALSE
    /\ nSince = 0

\* no parse call is in progress
ParserIdle ==
    /\ segs = <<>>
    /\ output = <<>>
    /\ pc = "idle"
    /\ cleanOutput = <<>>
    /\ results = <<>>
    /\ lastIndex = 0
    /\ calls = <<>>

\* no call of updateTestItemResults is in progress
CorrelatorIdle ==
    /\ items = <<>>
    /\ resultMap = <<>>
    /\ frames = <<>>
    /\ outcomes = <<>>
    /\ cpc = "idle"

\* no call of populateTestItemsFromReport is in progress
PopulateIdle ==
    /\ report = [suites |-> <<>>, tests |-> <<>>]
    /\ created = <<>>
    /\ tree = <<>>
    /\ pframes = <<>>
    /\ ppc = "idle"

\* no call of discoverTestsFromFile is in progress
MochaIdle ==
    /\ mochaOutput = <<>>
    /\ promise = "none"
    /\ closeThrew = FALSE
    /\ mpc = "idle"
    /\ fileResult = "waiting"

\* no run request is being handled
RunIdle ==
    /\ rpc = "idle"
    /\ allTests = 0
    /\ ri = 1
    /\ cancelRequested = FALSE
    /\ cancelObserved = FALSE
    /\ collectThrew = FALSE
    /\ settled = <<>>
    /\ runLog = <<>>

\* no call of discoverTests is in progress
DiscoverIdle ==
    /\ dpc = "idle"
    /\ configs = <<>>
    /\ cfgPc = <<>>
    /\ dtree = {}
    /\ addedLate = FALSE

\* web-test-runner is not running
WtrIdle ==
    /\ wtrOutput = <<>>
    /\ wtrErrorOutput = FALSE
    /\ wtrSuccess = FALSE
    /\ wtrResult = <<>>
    /\ wtrPc = "idle"

\* nothing of TestDiscovery and of the run handler is in progress
HostIdle == PopulateIdle /\ MochaIdle /\ RunIdle /\ DiscoverIdle /\ WtrIdle

InitReporter == NewReporter /\ ParserIdle /\ CorrelatorIdle /\ HostIdle

\* runner.once(EVENT_RUN_BEGIN, ...)
RunBegin ==
    /\ suiteCount' = IF onceRunBegin THEN 0 ELSE suiteCount
    /\ onceRunBegin' = FALSE
    /\ thrown' = "none"
    /\ mismatched' = FALSE
    /\ started' = TRUE
    /\ UNCHANGED <<suiteStack, suites, tests, onceRunEnd, reports>>
    /\ UNCHANGED <<open, maxOpen, balanced, nBegins, nTests, nRunEnds, openStack, nSince>>
    /\ UNCHANGED <<parserVars, correlatorVars, hostVars>>

\* SuiteBegin with the new suite appended to rootSuite instead of currentSuite
SuiteBeginUnderRoot(isRoot, title) ==
    /\ isRoot \/ nBegins < MaxSuites
    /\ IF isRoot
       THEN /\ thrown' = "none"
            /\ UNCHANGED <<suiteStack, suites, suiteCount>>
            /\ UNCHANGED <<open, maxOpen, nBegins, openStack, nSince>>
       ELSE /\ suiteCount' = suiteCount + 1
            /\ thrown' = "none"
            /\ suites' = Append(suites, [title |-> title, parent |-> Root])
            /\ suiteStack' = Append(suiteStack, Len(suites) + 1)
            /\ openStack' = Append(openStack, Len(suites) + 1)
            /\ nSince' = IF started THEN nSince + 1 ELSE nSince
            /\ open' = open + 1
            /\ maxOpen' = Max(maxOpen, open + 1)
            /\ nBegins' = nBegins + 1
    /\ mismatched' = FALSE
    /\ UNCHANGED <<tests, onceRunBegin, onceRunEnd, reports, balanced, nTests, nRunEnds>>
    /\ UNCHANGED started
    /\ UNCHANGED <<parserVars, correlatorVars, hostVars>>

\* runner.on(EVENT_SUITE_BEGIN, ...)
SuiteBegin(isRoot, title) ==
    /\ isRoot \/ nBegins < MaxSuites
    /\ IF isRoot
       THEN /\ thrown' = "none"
            /\ UNCHANGED <<suiteStack, suites, suiteCount>>
            /\ UNCHANGED <<open, maxOpen, nBegins, openStack, nSince>>
       ELSE /\ suiteCount' = suiteCount + 1
            /\ IF CurrentSuite = Undefined
               THEN \* currentSuite.suites: TypeError, nothing is appended or pushed
                    /\ thrown' = "TypeError"
                    /\ UNCHANGED <<suiteStack, suites>>
               ELSE /\ thrown' = "none"
                    /\ suites' = Append(suites, [title |-> title, parent |-> CurrentSuite])
                    /\ suiteStack' = Append(suiteStack, Len(suites) + 1)
            /\ openStack' = Append(openStack, IF CurrentSuite = Undefined THEN Undefined
                                               ELSE Len(suites) + 1)
            /\ nSince' = IF started THEN nSince + 1 ELSE nSince
            /\ open' = open + 1
            /\ maxOpen' = Max(maxOpen, open + 1)
            /\ nBegins' = nBegins + 1
    /\ mismatched' = FALSE
    /\ UNCHANGED <<tests, onceRunBegin, onceRunEnd, reports, balanced, nTests, nRunEnds>>
    /\ UNCHANGED started
    /\ UNCHANGED <<parserVars, correlatorVars, hostVars>>

\* SuiteEnd without the `if (suite.root) return` guard
SuiteEndNoRootGuard(isRoot) ==
    /\ suiteStack' = Pop(suiteStack)
    /\ IF isRoot
       THEN /\ UNCHANGED <<open, balanced, openStack>>
            /\ mismatched' = FALSE
       ELSE /\ open' = IF open > 0 THEN open - 1 ELSE 0
            /\ openStack' = Pop(openStack)
            /\ balanced' = (balanced /\ open > 0)
            /\ mismatched' = (open = 0)
    /\ thrown' = "none"
    /\ UNCHANGED <<suites, tests, suiteCount, onceRunBegin, onceRunEnd, reports>>
    /\ UNCHANGED <<maxOpen, nBegins, nTests, nRunEnds, started, nSince>>
    /\ UNCHANGED <<parserVars, correlatorVars, hostVars>>

\* runner.on(EVENT_SUITE_END, ...)
SuiteEnd(isRoot) ==
    /\ IF isRoot
       THEN /\ UNCHANGED <<suiteStack, open, balanced, openStack>>
            /\ mismatched' = FALSE
       ELSE /\ suiteStack' = Pop(suiteStack)
            /\ openStack' = Pop(openStack)
            /\ open' = IF open > 0 THEN open - 1 ELSE 0
            /\ balanced' = (balanced /\ open > 0)
            /\ mismatched' = (open = 0)
    /\ thrown' = "none"
    /\ UNCHANGED <<suites, tests, suiteCount, onceRunBegin, onceRunEnd, reports>>
    /\ UNCHANGED <<maxOpen, nBegins, nTests, nRunEnds, started, nSince>>
    /\ UNCHANGED <<parserVars, correlatorVars, hostVars>>

\* addTest that attaches an error to every node
AddTestErrorAlways(title, state, err) ==
    /\ nTests < MaxTests
    /\ IF CurrentSuite = Undefined
       THEN /\ thrown' = "TypeError"
            /\ UNCHANGED tests
       ELSE /\ thrown' = "none"
            /\ tests' = Append(tests, [title |-> title, state |-> state,
                                       error |-> TRUE, parent |-> CurrentSuite])
    /\ nTests' = nTests + 1
    /\ mismatched' = FALSE
    /\ UNCHANGED <<suiteStack, suites, suiteCount, onceRunBegin, onceRunEnd, reports>>
    /\ UNCHANGED <<open, maxOpen, balanced, nBegins, nRunEnds, openStack, started, nSince>>
    /\ UNCHANGED <<parserVars, correlatorVars, hostVars>>

\* addTest that puts the node in front of the tests (unshift instead of push)
AddTestInFront(title, state, err) ==
    /\ nTests < MaxTests
    /\ IF CurrentSuite = Undefined
       THEN /\ thrown' = "TypeError"
            /\ UNCHANGED tests
       ELSE /\ thrown' = "none"
            /\ tests' = <<[title |-> title, state |-> state,
                           error |-> err, parent |-> CurrentSuite]>> \o tests
    /\ nTests' = nTests + 1
    /\ mismatched' = FALSE
    /\ UNCHANGED <<suiteStack, suites, suiteCount, onceRunBegin, onceRunEnd, reports>>
    /\ UNCHANGED <<open, maxOpen, balanced, nBegins, nRunEnds, openStack, started, nSince>>
    /\ UNCHANGED <<parserVars, correlatorVars, hostVars>>

\* addTest that records nothing for a pending test
AddTestDropPending(title, state, err) ==
    /\ nTests < MaxTests
    /\ IF CurrentSuite = Undefined
       THEN /\ thrown' = "TypeError"
            /\ UNCHANGED tests
       ELSE /\ thrown' = "none"
            /\ tests' = IF state = "pending" THEN tests
                        ELSE Append(tests, [title |-> title, state |-> state,
                                            error |-> err, parent |-> CurrentSuite])
    /\ nTests' = nTests + 1
    /\ mismatched' = FALSE
    /\ UNCHANGED <<suiteStack, suites, suiteCount, onceRunBegin, onceRunEnd, reports>>
    /\ UNCHANGED <<open, maxOpen, balanced, nBegins, nRunEnds, openStack, started, nSince>>
    /\ UNCHANGED <<parserVars, correlatorVars, hostVars>>

\* addTest(test, state, err), called by the EVENT_TEST_PASS, EVENT_TEST_FAIL and
\* EVENT_TEST_PENDING listeners.
AddTest(title, state, err) ==
    /\ nTests < MaxTests
    /\ IF CurrentSuite = Undefined
       THEN \* currentSuite.tests: TypeError
            /\ thrown' = "TypeError"
            /\ UNCHANGED tests
       ELSE /\ thrown' = "none"
            /\ tests' = Append(tests, [title |-> title, state |-> state,
                                       error |-> err, parent |-> CurrentSuite])
    /\ nTests' = nTests + 1
    /\ mismatched' = FALSE
    /\ UNCHANGED <<suiteStack, suites, suiteCount, onceRunBegin, onceRunEnd, reports>>
    /\ UNCHANGED <<open, maxOpen, balanced, nBegins, nRunEnds, openStack, started, nSince>>
    /\ UNCHANGED <<parserVars, correlatorVars, hostVars>>

TestPass(title) == AddTest(title, "passed", FALSE)

\* err is an Error or undefined: `if (err)` attaches it only when present.
TestFail(title, err) == AddTest(title, "failed", err)

TestPending(title) == AddTest(title, "pending", FALSE)

\* the run-end listener registered with runner.on instead of runner.once
RunEndEveryTime ==
    /\ nRunEnds < MaxRunEnds
    /\ reports' = Append(reports, [suites |-> suiteCount, root |-> Root])
    /\ onceRunEnd' = FALSE
    /\ thrown' = "none"
    /\ mismatched' = FALSE
    /\ nRunEnds' = nRunEnds + 1
    /\ UNCHANGED <<suiteStack, suites, tests, suiteCount, onceRunBegin>>
    /\ UNCHANGED <<open, maxOpen, balanced, nBegins, nTests, openStack, started, nSince>>
    /\ UNCHANGED <<parserVars, correlatorVars, hostVars>>

\* runner.once(EVENT_RUN_END, ...).  report.root is the rootSuite object itself,
\* so the tree of a delivered report is the tree as it is now; report.stats.suites
\* is a copy of suiteCount.
RunEnd ==
    /\ nRunEnds < MaxRunEnds
    /\ reports' = IF onceRunEnd
                  THEN Append(reports, [suites |-> suiteCount, root |-> Root])
                  ELSE reports
    /\ onceRunEnd' = FALSE
    /\ thrown' = "none"
    /\ mismatched' = FALSE
    /\ nRunEnds' = nRunEnds + 1
    /\ UNCHANGED <<suiteStack, suites, tests, suiteCount, onceRunBegin>>
    /\ UNCHANGED <<open, maxOpen, balanced, nBegins, nTests, openStack, started, nSince>>
    /\ UNCHANGED <<parserVars, correlatorVars, hostVars>>

NextReporter ==
    \/ RunBegin
    \/ \E isRoot \in BOOLEAN, title \in Titles : SuiteBegin(isRoot, title)
    \/ \E isRoot \in BOOLEAN : SuiteEnd(isRoot)
    \/ \E title \in Titles : TestPass(title)
    \/ \E title \in Titles, err \in BOOLEAN : TestFail(title, err)
    \/ \E title \in Titles : TestPending(title)
    \/ RunEnd

SpecReporter == InitReporter /\ [][NextReporter]_vars

\* ---- measures of the report tree ----
RECURSIVE TestCount(_)
\* number of TestResult nodes in the subtree of suite s
TestCount(s) ==
    LET kids == ChildSuites(s)
        F[S \in SUBSET kids] ==
            IF S = {} THEN 0
            ELSE LET k == CHOOSE x \in S : TRUE IN TestCount(k) + F[S \ {k}]
    IN Cardinality(ChildTests(s)) + F[kids]

RECURSIVE Depth(_)
\* depth of the suite tree below s (s itself at depth 0)
Depth(s) ==
    LET kids == ChildSuites(s)
        F[S \in SUBSET kids] ==
            IF S = {} THEN 0
            ELSE LET k == CHOOSE x \in S : TRUE IN Max(1 + Depth(k), F[S \ {k}])
    IN F[kids]

\* ------------------------------------------------------------ TestResultParser
\* A text is a sequence of code points.  The ones that matter to the patterns
\* are named; every other code point is an ordinary one-character string.
CHECK == "CHECK"        \* U+2713, the check glyph
CROSS == "CROSS"        \* U+10102, the cross glyph of a failed result line
FAILMARK == "FAILMARK"  \* U+274C, the marker that opens a failure block
ESC == "ESC"            \* U+001B
NL == "\n"
CR == "\r"

\* \s of a JavaScript regular expression, and the characters trim() removes
IsSpace(c) == c \in {" ", "\t", NL, CR}
\* `.` without the s flag: anything but a line terminator
IsDot(c) == c \notin {NL, CR}
\* [0-9;]
IsAnsiParam(c) == c \in {"0", "1", "2", "3", "4", "5", "6", "7", "8", "9", ";"}

MinOf(S) == CHOOSE x \in S : \A y \in S : x <= y
MaxOf(S) == CHOOSE x \in S : \A y \in S : x >= y

\* The end of a match of /\x1b\[[0-9;]*m/ that starts at i, or 0 when there is none.
AnsiEnd(s, i) ==
    IF i + 1 <= Len(s) /\ s[i] = ESC /\ s[i + 1] = "["
    THEN LET stops == {j \in (i + 2)..Len(s) : ~IsAnsiParam(s[j])}
         IN IF stops # {} /\ s[MinOf(stops)] = "m" THEN MinOf(stops) ELSE 0
    ELSE 0

RECURSIVE StripFrom(_, _)
StripFrom(s, i) ==
    IF i > Len(s) THEN <<>>
    ELSE IF AnsiEnd(s, i) > 0 THEN StripFrom(s, AnsiEnd(s, i) + 1)
    ELSE <<s[i]>> \o StripFrom(s, i + 1)

\* output.replace(/\x1b\[[0-9;]*m/g, "")
StripAnsi(s) == StripFrom(s, 1)

RECURSIVE SplitLines(_)
\* s.split("\n")
SplitLines(s) ==
    LET nls == {i \in 1..Len(s) : s[i] = NL}
    IN IF nls = {} THEN <<s>>
       ELSE <<SubSeq(s, 1, MinOf(nls) - 1)>> \o SplitLines(SubSeq(s, MinOf(nls) + 1, Len(s)))

\* s.trim()
Trim(s) ==
    LET keep == {i \in 1..Len(s) : ~IsSpace(s[i])}
    IN IF keep = {} THEN <<>> ELSE SubSeq(s, MinOf(keep), MaxOf(keep))

\* line.match(/^\s+([\s\S]?)\s+(.+)$/u).  A way to match is <<k, g, m>>: the
\* leading \s+ takes k characters, the group [\s\S]? takes g (0 or 1) and the
\* second \s+ takes m; (.+) takes the rest of the line, which must be non-empty
\* and free of line terminators.  The engine returns the first way in its
\* backtracking order: each quantifier is greedy, the leftmost one decided first.
LineWays(line) ==
    {w \in (1..Len(line)) \X {0, 1} \X (1..Len(line)) :
        /\ w[1] + w[2] + w[3] < Len(line)
        /\ \A i \in 1..w[1] : IsSpace(line[i])
        /\ \A i \in (w[1] + w[2] + 1)..(w[1] + w[2] + w[3]) : IsSpace(line[i])
        /\ \A i \in (w[1] + w[2] + w[3] + 1)..Len(line) : IsDot(line[i])}

Earlier(v, w) ==
    \/ v[1] > w[1]
    \/ v[1] = w[1] /\ v[2] > w[2]
    \/ v[1] = w[1] /\ v[2] = w[2] /\ v[3] >= w[3]

\* [matched, symbol (match[1]), title (match[2])]
LineMatch(line) ==
    LET ways == LineWays(line)
    IN IF ways = {} THEN [matched |-> FALSE, symbol |-> <<>>, title |-> <<>>]
       ELSE LET w == CHOOSE v \in ways : \A u \in ways : Earlier(v, u)
            IN [matched |-> TRUE,
                symbol |-> SubSeq(line, w[1] + 1, w[1] + w[2]),
                title |-> SubSeq(line, w[1] + w[2] + w[3] + 1, Len(line))]

MapSetKeepFirst(map, key, entry) ==
    IF key \in DOMAIN map THEN map
    ELSE [k \in DOMAIN map \cup {key} |-> IF k = key THEN entry ELSE map[k]]

\* results.set(key, entry)
MapSet(map, key, entry) ==
    [k \in DOMAIN map \cup {key} |-> IF k = key THEN entry ELSE map[k]]

IsPassSymbolUnlessCross(symbol) == symbol # <<CROSS>>

\* match[1].includes(CHECK), match[1] being at most one code point
IsPassSymbol(symbol) == symbol = <<CHECK>>

\* the body of the loop over the lines (lines 20-33)
ParseLine(map, line) ==
    IF Trim(line) = <<>> THEN map
    ELSE LET m == LineMatch(line)
         IN IF m.matched /\ m.symbol # <<>>
            THEN MapSet(map, Trim(m.title),
                        [passed |-> IsPassSymbol(m.symbol), hasMessage |-> FALSE,
                         message |-> <<>>])
            ELSE map

RECURSIVE ParseLinesFrom(_, _, _)
ParseLinesFrom(map, lines, i) ==
    IF i > Len(lines) THEN map
    ELSE ParseLinesFrom(ParseLine(map, lines[i]), lines, i + 1)

\* The words of the lookahead (?=\n\s*(?:Chromium|Firefox|Webkit|Finished|$))
LabelWords ==
    { <<"C", "h", "r", "o", "m", "i", "u", "m">>,
      <<"F", "i", "r", "e", "f", "o", "x">>,
      <<"W", "e", "b", "k", "i", "t">>,
      <<"F", "i", "n", "i", "s", "h", "e", "d">> }

LabelAt(s, j) ==
    \E w \in LabelWords : j + Len(w) - 1 <= Len(s) /\ SubSeq(s, j, j + Len(w) - 1) = w

\* (?=\n\s*(?:Chromium|Firefox|Webkit|Finished|$)) at position e.  The regular
\* expression has no m flag, so $ is the end of the text only.
Terminates(s, e) ==
    /\ e <= Len(s)
    /\ s[e] = NL
    /\ \E j \in (e + 1)..(Len(s) + 1) :
          /\ \A t \in (e + 1)..(j - 1) : IsSpace(s[t])
          /\ j = Len(s) + 1 \/ LabelAt(s, j)

\* The end of (.+?)\n for a header starting at h: the position of the first
\* "\n" at or after h, or 0 when the header would be empty or would have to
\* cross a line terminator.
HeaderEnd(s, h) ==
    LET nls == {p \in h..Len(s) : s[p] = NL}
    IN IF nls = {} THEN 0
       ELSE LET p == MinOf(nls)
            IN IF p > h /\ \A t \in h..(p - 1) : IsDot(s[t]) THEN p ELSE 0

\* The end of ([\s\S]+?) for a body starting at b: the first position e > b at
\* which the lookahead holds, or 0.
BodyEnd(s, b) ==
    LET ends == {e \in (b + 1)..Len(s) : Terminates(s, e)}
    IN IF ends = {} THEN 0 ELSE MinOf(ends)

\* The ways failureRegex matches at i: r is what the greedy \s+ after the marker
\* takes.
FailureWays(s, i) ==
    IF s[i] # FAILMARK THEN {}
    ELSE {r \in 1..(Len(s) - i) :
            /\ \A t \in (i + 1)..(i + r) : IsSpace(s[t])
            /\ HeaderEnd(s, i + r + 1) > 0
            /\ BodyEnd(s, HeaderEnd(s, i + r + 1) + 1) > 0}

\* failureRegex.exec(cleanOutput) with lastIndex = from: the leftmost match at or
\* after from.  [found, header (match[1]), body (match[2]), next (the new lastIndex)]
FailureExec(s, from) ==
    LET starts == {i \in from..Len(s) : FailureWays(s, i) # {}}
    IN IF starts = {}
       THEN [found |-> FALSE, header |-> <<>>, body |-> <<>>, next |-> 0]
       ELSE LET i == MinOf(starts)
                r == MaxOf(FailureWays(s, i))
                p == HeaderEnd(s, i + r + 1)
                e == BodyEnd(s, p + 1)
            IN [found |-> TRUE,
                header |-> SubSeq(s, i + r + 1, p - 1),
                body |-> SubSeq(s, p + 1, e - 1),
                next |-> e]

\* s.split(">").pop()
LastSegment(s) ==
    LET gts == {i \in 1..Len(s) : s[i] = ">"}
    IN IF gts = {} THEN s ELSE SubSeq(s, MaxOf(gts) + 1, Len(s))

\* failedTestFullName.split(">").pop()?.trim() || failedTestFullName
ShortName(fullName) ==
    IF Trim(LastSegment(fullName)) = <<>> THEN fullName ELSE Trim(LastSegment(fullName))

\* the loop body without the results.has(testName) test
AttachFailureNoHasCheck(map, header, body) ==
    MapSet(map, ShortName(Trim(header)),
           [passed |-> FALSE, hasMessage |-> TRUE, message |-> Trim(body)])

\* the body of the while loop (lines 42-48)
AttachFailure(map, header, body) ==
    LET testName == ShortName(Trim(header))
    IN IF testName \in DOMAIN map
       THEN [map EXCEPT ![testName].hasMessage = TRUE, ![testName].message = Trim(body)]
       ELSE map

\* ---- the texts parseTestResults is called with ----
TitleA == <<"a">>
TitleB == <<"b">>
BodyA == <<"E", "r", " ", "q">>
BodyB == <<"I", " ", "q">>

PieceText(kind) ==
    CASE kind = "PassA" -> <<" ", " ", CHECK, " ">> \o TitleA
      [] kind = "FailA" -> <<" ", " ", CROSS, " ">> \o TitleA
      [] kind = "FailAB" -> <<" ", " ", CROSS, " ">> \o TitleA \o <<NL>>
                            \o <<" ", " ", CROSS, " ">> \o TitleB
      [] kind = "PassASpaces" -> <<" ", " ", CHECK, " ">> \o TitleA \o <<" ", "\t">>
      [] kind = "PassACr" -> <<" ", " ", CHECK, " ">> \o TitleA \o <<CR>>
      [] kind = "ErasePassB" -> <<" ", " ", ESC, "[", "2", "K", CHECK, " ">> \o TitleB
      [] kind = "AnsiPassB" -> <<" ", ESC, "[", "3", "2", "m", CHECK, ESC, "[", "0", "m", " ">>
                               \o TitleB
      [] kind = "BlockA" -> <<FAILMARK, " ", "s", " ", ">", " ">> \o TitleA \o <<NL>>
                            \o <<" ", " ">> \o BodyA
      [] kind = "BlockB" -> <<FAILMARK, " ">> \o TitleB \o <<NL>> \o <<" ", " ">> \o BodyB
      [] kind = "Label" -> <<"C", "h", "r", "o", "m", "i", "u", "m", ":">>
      [] kind = "Blank" -> <<>>

PieceKinds == {"PassA", "FailA", "FailAB", "AnsiPassB", "BlockA", "BlockB", "Label", "Blank"}

RECURSIVE JoinFrom(_, _)
\* the pieces from the i-th on, one per line
JoinFrom(kinds, i) ==
    IF i > Len(kinds) THEN <<>>
    ELSE IF i = Len(kinds) THEN PieceText(kinds[i])
    ELSE PieceText(kinds[i]) \o <<NL>> \o JoinFrom(kinds, i + 1)

Texts == UNION {[1..n -> PieceKinds] : n \in 0..MaxPieces}

\* ---- parseTestResults(output), lines 8-52 ----
ParseStartKeepMap ==
    /\ pc = "start"
    /\ results' = results
    /\ cleanOutput' = StripAnsi(output)
    /\ pc' = "lines"
    /\ UNCHANGED <<segs, output, lastIndex, calls>>
    /\ UNCHANGED <<reporterVars, streamVars, correlatorVars, hostVars>>

\* lines 11-14
ParseStart ==
    /\ pc = "start"
    /\ results' = <<>>
    /\ cleanOutput' = StripAnsi(output)
    /\ pc' = "lines"
    /\ UNCHANGED <<segs, output, lastIndex, calls>>
    /\ UNCHANGED <<reporterVars, streamVars, correlatorVars, hostVars>>

\* lines 18-34: the loop over the lines; lines 37-39: the fresh failureRegex
ParseLines ==
    /\ pc = "lines"
    /\ results' = ParseLinesFrom(results, SplitLines(cleanOutput), 1)
    /\ lastIndex' = 1
    /\ pc' = "failures"
    /\ UNCHANGED <<segs, output, cleanOutput, calls>>
    /\ UNCHANGED <<reporterVars, streamVars, correlatorVars, hostVars>>

\* lines 41-49: one iteration of the while loop
ParseFailure ==
    /\ pc = "failures"
    /\ FailureExec(cleanOutput, lastIndex).found
    /\ results' = AttachFailure(results, FailureExec(cleanOutput, lastIndex).header,
                                FailureExec(cleanOutput, lastIndex).body)
    /\ lastIndex' = FailureExec(cleanOutput, lastIndex).next
    /\ UNCHANGED <<segs, output, pc, cleanOutput, calls>>
    /\ UNCHANGED <<reporterVars, streamVars, correlatorVars, hostVars>>

\* lines 41 and 51: exec returns null, the loop ends and the map is returned
ParseReturn ==
    /\ pc = "failures"
    /\ ~FailureExec(cleanOutput, lastIndex).found
    /\ lastIndex' = 0
    /\ pc' = "done"
    /\ calls' = Append(calls, [segs |-> segs, results |-> results])
    /\ UNCHANGED <<segs, output, cleanOutput, results>>
    /\ UNCHANGED <<reporterVars, streamVars, correlatorVars, hostVars>>

\* the first call: parseTestResults(JoinFrom(text, 1))
FirstCall(text) ==
    /\ segs = text
    /\ output = JoinFrom(text, 1)
    /\ pc = "start"
    /\ cleanOutput = <<>>
    /\ results = <<>>
    /\ lastIndex = 0
    /\ calls = <<>>

InitParser ==
    /\ NewReporter
    /\ CorrelatorIdle
    /\ HostIdle
    /\ \E text \in Texts : FirstCall(text)

NextParser ==
    \/ ParseStart
    \/ ParseLines
    \/ ParseFailure
    \/ ParseReturn

SpecParser == InitParser /\ [][NextParser]_vars

\* ---- texts with escape sequences other than colours ----
LineKinds ==
    {"PassA", "FailA", "PassASpaces", "PassACr", "ErasePassB", "AnsiPassB", "BlockA",
     "Label", "Blank"}
LineTexts == UNION {[1..n -> LineKinds] : n \in 0..MaxLines}

InitParserLines ==
    /\ NewReporter
    /\ CorrelatorIdle
    /\ HostIdle
    /\ \E text \in LineTexts : FirstCall(text)

SpecParserLines == InitParserLines /\ [][NextParser]_vars

\* ---- several calls, one after the other ----
CallTexts ==
    { <<>>, <<"PassA">>, <<"FailA", "BlockA", "Label">>, <<"FailA", "PassA">>,
      <<"AnsiPassB">>, <<"BlockB", "Blank">> }

\* the next call of parseTestResults, on the same or on another TestResultParser
\* (the class has no fields); the locals of the call before are whatever it left
ParseCall ==
    /\ pc = "done"
    /\ Len(calls) < MaxCalls
    /\ \E text \in CallTexts :
            /\ segs' = text
            /\ output' = JoinFrom(text, 1)
    /\ pc' = "start"
    /\ UNCHANGED <<cleanOutput, results, lastIndex, calls>>
    /\ UNCHANGED <<reporterVars, streamVars, correlatorVars, hostVars>>

InitParserCalls ==
    /\ NewReporter
    /\ CorrelatorIdle
    /\ HostIdle
    /\ \E text \in CallTexts : FirstCall(text)

NextParserCalls ==
    \/ ParseCall
    \/ ParseStart
    \/ ParseLines
    \/ ParseFailure
    \/ ParseReturn

SpecParserCalls == InitParserCalls /\ [][NextParserCalls]_vars

\* ============================ TestController.updateTestItemResults (lines 213-237)
Target == 0
Labels == {TitleA, TitleB}

\* the failure message the method falls back to (line 225)
DefaultMessage == <<"T", "e", "s", "t", " ", "f", "a", "i", "l", "e", "d">>

\* the test items below the target item, numbered in the order of their creation
Trees ==
    UNION { {t \in [1..n -> [label : Labels, parent : 0..MaxItems]] :
                \A i \in 1..n : t[i].parent < i} : n \in 0..MaxItems }

\* the entries of a result map: passed, failed without a message, failed with an
\* empty message, failed with a message
Entries ==
    { [passed |-> TRUE, hasMessage |-> FALSE, message |-> <<>>],
      [passed |-> FALSE, hasMessage |-> FALSE, message |-> <<>>],
      [passed |-> FALSE, hasMessage |-> TRUE, message |-> <<>>],
      [passed |-> FALSE, hasMessage |-> TRUE, message |-> <<"x">>] }

ResultMaps == UNION {[keys -> Entries] : keys \in SUBSET Labels}

FirstChildOnly(n) ==
    LET kids == SelectSeq([i \in 1..Len(items) |-> i], LAMBDA i : items[i].parent = n)
    IN IF kids = <<>> THEN <<>> ELSE <<kids[1]>>

\* testItem.children, in the order of iteration (line 215)
Children(n) ==
    SelectSeq([i \in 1..Len(items) |-> i], LAMBDA i : items[i].parent = n)

GetOrFailed(map, label) ==
    IF label \in DOMAIN map THEN [found |-> TRUE, entry |-> map[label]]
    ELSE [found |-> TRUE,
          entry |-> [passed |-> FALSE, hasMessage |-> FALSE, message |-> <<>>]]

\* results.get(testTitle) and the test `if (result)` (lines 217-218)
Get(map, label) ==
    IF label \in DOMAIN map THEN [found |-> TRUE, entry |-> map[label]]
    ELSE [found |-> FALSE,
          entry |-> [passed |-> FALSE, hasMessage |-> FALSE, message |-> <<>>]]

OutcomeNoDefault(child, entry) ==
    IF entry.passed THEN [item |-> child, state |-> "passed", message |-> <<>>]
    ELSE [item |-> child, state |-> "failed", message |-> entry.message]

\* lines 219-228: run.passed(child), or run.failed(child, [message]) with
\* result.message || "Test failed"
Outcome(child, entry) ==
    IF entry.passed THEN [item |-> child, state |-> "passed", message |-> <<>>]
    ELSE [item |-> child, state |-> "failed",
          message |-> IF entry.hasMessage /\ entry.message # <<>>
                      THEN entry.message ELSE DefaultMessage]

Top == frames[Len(frames)]
Advanced == [frames EXCEPT ![Len(frames)].next = @ + 1]

VisitChildAndDescend ==
    /\ cpc = "run"
    /\ Top.next <= Len(Children(Top.item))
    /\ LET child == Children(Top.item)[Top.next]
           result == Get(resultMap, items[child].label)
       IN /\ outcomes' = IF result.found
                          THEN Append(outcomes, Outcome(child, result.entry))
                          ELSE outcomes
          /\ frames' = Append(Advanced, [item |-> child, next |-> 1])
    /\ UNCHANGED <<items, resultMap, cpc>>
    /\ UNCHANGED <<reporterVars, streamVars, parserVars, hostVars>>

VisitChildAndConsume ==
    /\ cpc = "run"
    /\ Top.next <= Len(Children(Top.item))
    /\ LET child == Children(Top.item)[Top.next]
           result == Get(resultMap, items[child].label)
       IN IF result.found
          THEN /\ outcomes' = Append(outcomes, Outcome(child, result.entry))
               /\ frames' = Advanced
               /\ resultMap' = [k \in DOMAIN resultMap \ {items[child].label}
                                   |-> resultMap[k]]
          ELSE /\ frames' = Append(Advanced, [item |-> child, next |-> 1])
               /\ UNCHANGED <<outcomes, resultMap>>
    /\ UNCHANGED <<items, cpc>>
    /\ UNCHANGED <<reporterVars, streamVars, parserVars, hostVars>>

\* lines 215-235: one turn of the loop over the children of the item of the
\* innermost call; the recursive call of line 234 starts a new frame
VisitChild ==
    /\ cpc = "run"
    /\ Top.next <= Len(Children(Top.item))
    /\ LET child == Children(Top.item)[Top.next]
           result == Get(resultMap, items[child].label)
       IN IF result.found
          THEN /\ outcomes' = Append(outcomes, Outcome(child, result.entry))
               /\ frames' = Advanced
          ELSE /\ frames' = Append(Advanced, [item |-> child, next |-> 1])
               /\ UNCHANGED outcomes
    /\ UNCHANGED <<items, resultMap, cpc>>
    /\ UNCHANGED <<reporterVars, streamVars, parserVars, hostVars>>

\* line 236: the loop of the innermost call is over and the call returns
Return ==
    /\ cpc = "run"
    /\ Top.next > Len(Children(Top.item))
    /\ frames' = SubSeq(frames, 1, Len(frames) - 1)
    /\ cpc' = IF Len(frames) = 1 THEN "done" ELSE "run"
    /\ UNCHANGED <<items, resultMap, outcomes>>
    /\ UNCHANGED <<reporterVars, streamVars, parserVars, hostVars>>

\* updateTestItemResults(target, run, results) is called (line 120)
InitCorrelator ==
    /\ NewReporter
    /\ ParserIdle
    /\ items \in Trees
    /\ resultMap \in ResultMaps
    /\ frames = <<[item |-> Target, next |-> 1]>>
    /\ outcomes = <<>>
    /\ cpc = "run"
    /\ HostIdle

NextCorrelator ==
    \/ VisitChild
    \/ Return

SpecCorrelator == InitCorrelator /\ [][NextCorrelator]_vars

\* =============== TestDiscovery.populateTestItemsFromReport (testDiscovery.ts 203-241)
coreVars == <<reporterVars, streamVars, parserVars, correlatorVars>>
CoreIdle == NewReporter /\ ParserIdle /\ CorrelatorIdle
notPopulate == <<coreVars, mochaVars, runVars, discoverVars, wtrVars>>

\* the id of the file item the report is mirrored under
FileId == <<"file">>

\* `${parentItem.id}::${title}`
ChildIdTitleOnly(parentId, title) == <<title>>

ChildId(parentId, title) == parentId \o <<"::", title>>

\* the trees a reporter can deliver, up to the bounds: n suites, each below the
\* root or an earlier suite, and m tests, each in the root or in a suite
IsReport(ss, ts) ==
    /\ \A i \in DOMAIN ss : ss[i].parent < i
    /\ \A i \in DOMAIN ts : ts[i].parent <= Len(ss)

\* reportItem.suites and reportItem.tests of node n, in array order
ReportSuites(n) ==
    SelectSeq([i \in 1..Len(report.suites) |-> i], LAMBDA i : report.suites[i].parent = n)
ReportTests(n) ==
    SelectSeq([i \in 1..Len(report.tests) |-> i], LAMBDA i : report.tests[i].parent = n)

IsProperPrefix(p, q) == Len(p) < Len(q) /\ SubSeq(q, 1, Len(p)) = p

\* parentItem.children.add(item): an item of the collection with the same id is
\* replaced (and what hung below it goes with it); else the item is added
Add(items0, item) ==
    IF \E i \in DOMAIN items0 : items0[i].id = item.id
    THEN SelectSeq([i \in DOMAIN items0 |->
                       IF items0[i].id = item.id THEN item ELSE items0[i]],
                   LAMBDA it : ~IsProperPrefix(item.id, it.id))
    ELSE Append(items0, item)

PTop == pframes[Len(pframes)]
PAdvanced == [pframes EXCEPT ![Len(pframes)].next = @ + 1]

\* lines 211-220: one turn of the loop over reportItem.suites; the recursive
\* call of line 219 starts a new frame.  A frame counts the turns of both loops
\* of its call: the loop over the suites comes first.
PopulateSuite ==
    /\ ppc = "run"
    /\ PTop.next <= Len(ReportSuites(PTop.node))
    /\ LET suite == ReportSuites(PTop.node)[PTop.next]
           title == report.suites[suite].title
           id == ChildId(PTop.item, title)
       IN /\ created' = Append(created, [id |-> id, label |-> title, parent |-> PTop.item,
                                         kind |-> "suite", node |-> suite])
          /\ tree' = Add(tree, [id |-> id, label |-> title, parent |-> PTop.item])
          /\ pframes' = Append(PAdvanced, [item |-> id, node |-> suite, next |-> 1])
    /\ UNCHANGED <<report, ppc>>
    /\ UNCHANGED notPopulate

\* lines 227-240: one turn of the loop over reportItem.tests, which starts
\* when the loop over the suites is over
PopulateTest ==
    /\ ppc = "run"
    /\ PTop.next > Len(ReportSuites(PTop.node))
    /\ PTop.next <= Len(ReportSuites(PTop.node)) + Len(ReportTests(PTop.node))
    /\ LET test == ReportTests(PTop.node)[PTop.next - Len(ReportSuites(PTop.node))]
           title == report.tests[test].title
           id == ChildId(PTop.item, title)
       IN /\ created' = Append(created, [id |-> id, label |-> title, parent |-> PTop.item,
                                         kind |-> "test", node |-> test])
          /\ tree' = Add(tree, [id |-> id, label |-> title, parent |-> PTop.item])
          /\ pframes' = PAdvanced
    /\ UNCHANGED <<report, ppc>>
    /\ UNCHANGED notPopulate

\* line 241: both loops are over and the call returns
PopulateReturn ==
    /\ ppc = "run"
    /\ PTop.next > Len(ReportSuites(PTop.node)) + Len(ReportTests(PTop.node))
    /\ pframes' = SubSeq(pframes, 1, Len(pframes) - 1)
    /\ ppc' = IF Len(pframes) = 1 THEN "done" ELSE "run"
    /\ UNCHANGED <<report, created, tree>>
    /\ UNCHANGED notPopulate

\* populateTestItemsFromReport(fileTestItem, report.root, configPath) is called
\* (line 123)
InitPopulate ==
    /\ CoreIdle
    /\ MochaIdle
    /\ RunIdle
    /\ DiscoverIdle
    /\ WtrIdle
    /\ \E n \in 0..MaxReportSuites, m \in 0..MaxReportTests :
           \E ss \in [1..n -> [title : Labels, parent : 0..MaxReportSuites]],
              ts \in [1..m -> [title : Labels, parent : 0..MaxReportSuites]] :
               /\ IsReport(ss, ts)
               /\ report = [suites |-> ss, tests |-> ts]
    /\ created = <<>>
    /\ tree = <<>>
    /\ pframes = <<[item |-> FileId, node |-> Root, next |-> 1]>>
    /\ ppc = "run"

NextPopulate ==
    \/ PopulateSuite
    \/ PopulateTest
    \/ PopulateReturn

SpecPopulate == InitPopulate /\ [][NextPopulate]_vars

\* ======= TestDiscovery.discoverTestsFromFile and runMochaForFile (lines 114-186)
\* What mocha writes to stdout, as tokens: an opening brace, a closing brace,
\* the member "root" with a tree as its value, another member, other text.
OutputTokens == {"{", "}", "root", "member", "text"}
notMocha == <<coreVars, populateVars, runVars, discoverVars, wtrVars>>

\* output.match(/\{[\s\S]*\}/): from the first opening brace to the last
\* closing brace after it; <<>> when there is no match
JsonMatch(out) ==
    LET opens == {i \in DOMAIN out : out[i] = "{"}
        closes == {i \in DOMAIN out : out[i] = "}"}
    IN IF opens # {} /\ closes # {} /\ MaxOf(closes) > MinOf(opens)
       THEN SubSeq(out, MinOf(opens), MaxOf(closes))
       ELSE <<>>

\* JSON.parse(text) returns (it throws a SyntaxError otherwise): text is one
\* object, a pair of braces around members
JsonParses(text) ==
    /\ Len(text) >= 2
    /\ text[1] = "{" /\ text[Len(text)] = "}"
    /\ \A i \in 2..(Len(text) - 1) : text[i] \in {"root", "member"}

\* report.root is a tree
HasRoot(text) == \E i \in DOMAIN text : text[i] = "root"

\* lines 136-152: a path that does not end in js gives null at once; spawn may
\* throw, which the catch of line 180 turns into null; else the process runs
MochaStart ==
    /\ mpc = "call"
    /\ \E endsWithJs, spawnThrows \in BOOLEAN :
           IF endsWithJs /\ ~spawnThrows
           THEN mpc' = "spawned" /\ promise' = "pending"
           ELSE mpc' = "closed" /\ promise' = "null"
    /\ UNCHANGED <<mochaOutput, closeThrew, fileResult>>
    /\ UNCHANGED notMocha

\* lines 157-160: the stdout data handler
StdoutData ==
    /\ mpc = "spawned"
    /\ Len(mochaOutput) < MaxOutput
    /\ \E tok \in OutputTokens : mochaOutput' = Append(mochaOutput, tok)
    /\ UNCHANGED <<promise, closeThrew, mpc, fileResult>>
    /\ UNCHANGED notMocha

\* lines 167-179: the close handler.  JSON.parse (line 171) runs in the handler,
\* outside the try of line 141, which has long been left: a SyntaxError leaves
\* the handler and resolve is not called.
Close ==
    /\ mpc = "spawned"
    /\ mpc' = "closed"
    /\ IF JsonMatch(mochaOutput) # <<>>
       THEN IF JsonParses(JsonMatch(mochaOutput))
            THEN promise' = "report" /\ UNCHANGED closeThrew
            ELSE closeThrew' = TRUE /\ UNCHANGED promise
       ELSE promise' = "null" /\ UNCHANGED closeThrew
    /\ UNCHANGED <<mochaOutput, fileResult>>
    /\ UNCHANGED notMocha

\* lines 121-129: discoverTestsFromFile goes on when the promise is settled
FileContinue ==
    /\ mpc = "closed"
    /\ fileResult = "waiting"
    /\ promise \in {"null", "report"}
    /\ fileResult' = IF promise = "null" THEN "noTests"
                     ELSE IF HasRoot(JsonMatch(mochaOutput)) THEN "populated"
                     ELSE "caught"
    /\ UNCHANGED <<mochaOutput, promise, closeThrew, mpc>>
    /\ UNCHANGED notMocha

\* discoverTestsFromFile(fileUri, fileTestItem, configPath) is called (line 106)
InitMocha ==
    /\ CoreIdle
    /\ PopulateIdle
    /\ RunIdle
    /\ DiscoverIdle
    /\ WtrIdle
    /\ mochaOutput = <<>>
    /\ promise = "none"
    /\ closeThrew = FALSE
    /\ mpc = "call"
    /\ fileResult = "waiting"

NextMocha ==
    \/ MochaStart
    \/ StdoutData
    \/ Close
    \/ FileContinue

SpecMocha == InitMocha /\ [][NextMocha]_vars

\* ============ the run handler of TestController (testController.ts, lines 82-153)
notRun == <<coreVars, populateVars, mochaVars, discoverVars, wtrVars>>

\* a call on the TestRun: run.started, run.passed, run.failed, run.errored on
\* an item of allTests (0 for run.end, which takes none)
Call(ev, item) == [ev |-> ev, item |-> item]

\* lines 94-96: run.started on every item of the controller, in order
RECURSIVE StartedAll(_)
StartedAll(n) == IF n = 0 THEN <<>> ELSE Append(StartedAll(n - 1), Call("started", n))

\* lines 88-97: allTests is the request's include list, or else the items of
\* the controller, each of them marked as started.  An exception here leaves
\* the try block for the finally of line 150.
RunCollect ==
    /\ rpc = "collect"
    /\ \E include, throws \in BOOLEAN :
          IF throws
          THEN /\ collectThrew' = TRUE
               /\ rpc' = "finally"
               /\ UNCHANGED runLog
          ELSE /\ rpc' = "loop"
               /\ runLog' = IF include /\ allTests > 0 THEN runLog
                            ELSE runLog \o StartedAll(allTests)
               /\ UNCHANGED collectThrew
    /\ UNCHANGED <<allTests, ri, cancelRequested, cancelObserved, settled>>
    /\ UNCHANGED notRun

\* lines 99-111: the head of the loop, up to the await
LoopCheck ==
    /\ rpc = "loop"
    /\ IF ri > allTests
       THEN rpc' = "finally" /\ UNCHANGED <<cancelObserved, runLog>>
       ELSE IF cancelRequested
            THEN rpc' = "finally" /\ cancelObserved' = TRUE /\ UNCHANGED runLog
            ELSE /\ rpc' = "await"
                 /\ runLog' = Append(runLog, Call("started", ri))
                 /\ UNCHANGED cancelObserved
    /\ UNCHANGED <<allTests, ri, cancelRequested, collectThrew, settled>>
    /\ UNCHANGED notRun

\* the user cancels the run
Cancel ==
    /\ rpc \in {"collect", "loop", "await", "finally"}
    /\ ~cancelRequested
    /\ cancelRequested' = TRUE
    /\ UNCHANGED <<rpc, allTests, ri, cancelObserved, collectThrew, settled, runLog>>
    /\ UNCHANGED notRun

\* lines 111-143: runTestFile resolved; the item is marked passed or failed
RunResolve ==
    /\ rpc = "await"
    /\ \E passed \in BOOLEAN :
          runLog' = Append(runLog, Call(IF passed THEN "passed" ELSE "failed", ri))
    /\ settled' = Append(settled, "resolved")
    /\ ri' = ri + 1
    /\ rpc' = "loop"
    /\ UNCHANGED <<allTests, cancelRequested, cancelObserved, collectThrew>>
    /\ UNCHANGED notRun

RunRejectEscapes ==
    /\ rpc = "await"
    /\ settled' = Append(settled, "rejected")
    /\ collectThrew' = TRUE
    /\ rpc' = "finally"
    /\ UNCHANGED <<allTests, ri, cancelRequested, cancelObserved, runLog>>
    /\ UNCHANGED notRun

\* lines 144-148: runTestFile rejected, or parsing or recording threw; the
\* catch marks the item as errored and the loop goes on
RunReject ==
    /\ rpc = "await"
    /\ runLog' = Append(runLog, Call("errored", ri))
    /\ settled' = Append(settled, "rejected")
    /\ ri' = ri + 1
    /\ rpc' = "loop"
    /\ UNCHANGED <<allTests, cancelRequested, cancelObserved, collectThrew>>
    /\ UNCHANGED notRun

FinallySkipsEnd ==
    /\ rpc = "finally"
    /\ rpc' = IF collectThrew THEN "thrown" ELSE "returned"
    /\ UNCHANGED <<allTests, ri, cancelRequested, cancelObserved, collectThrew,
                   settled, runLog>>
    /\ UNCHANGED notRun

\* lines 150-152: finally { run.end(); }, then the handler returns, or the
\* exception goes on to the caller
Finally ==
    /\ rpc = "finally"
    /\ runLog' = Append(runLog, Call("end", 0))
    /\ rpc' = IF collectThrew THEN "thrown" ELSE "returned"
    /\ UNCHANGED <<allTests, ri, cancelRequested, cancelObserved, collectThrew, settled>>
    /\ UNCHANGED notRun

\* line 86: the handler is called with a request; run = createTestRun(request)
InitRun ==
    /\ CoreIdle
    /\ PopulateIdle
    /\ MochaIdle
    /\ DiscoverIdle
    /\ WtrIdle
    /\ rpc = "collect"
    /\ allTests \in 0..MaxRunItems
    /\ ri = 1
    /\ cancelRequested \in BOOLEAN
    /\ cancelObserved = FALSE
    /\ collectThrew = FALSE
    /\ settled = <<>>
    /\ runLog = <<>>

NextRun ==
    \/ RunCollect
    \/ LoopCheck
    \/ Cancel
    \/ RunResolve
    \/ RunReject
    \/ Finally

\* The steps of the handler are continuations on the event loop, which runs
\* them when they are ready; the awaited promise of runTestFile settles when
\* the web-test-runner process closes (logger.ts, lines 149-152).
FairRun ==
    /\ WF_vars(RunCollect)
    /\ WF_vars(LoopCheck)
    /\ WF_vars(RunResolve \/ RunReject)
    /\ WF_vars(Finally)

SpecRun == InitRun /\ [][NextRun]_vars /\ FairRun

\* ================ TestDiscovery.discoverTests (testDiscovery.ts, lines 22-112)
notDiscover == <<coreVars, populateVars, mochaVars, runVars, wtrVars>>

\* the ids of the items: a group of a config file, a file of a group, and the
\* suite and test items below a file (one node stands for them)
GroupItem(c, g) == <<c, g>>
FileItem(c, g, f) == <<c, g, f>>
NestedItem(c, g, f) == <<c, g, f, 1>>
StaleItem == <<0>>

\* a forEach callback: not called yet, awaiting loadConfig (line 50), awaiting
\* findFiles for group g (line 91), awaiting discoverTestsFromFile for file f
\* of group g (line 108), or returned
At(at, g, f) == [at |-> at, g |-> g, f |-> f]

\* lines 53-66 and 68-81: the loop over the groups goes to the next group,
\* adds its item to the tree and calls discoverTestsFromGroup, or returns
NextGroup(c, g, tree0) ==
    IF g < configs[c].groups
    THEN /\ dtree' = tree0 \cup {GroupItem(c, g + 1)}
         /\ cfgPc' = [cfgPc EXCEPT ![c] = At("findFiles", g + 1, 0)]
    ELSE /\ dtree' = tree0
         /\ cfgPc' = [cfgPc EXCEPT ![c] = At("done", g, 0)]

\* lines 23-28: without a workspace folder the call returns at once
DiscoverNoFolder ==
    /\ dpc = "call"
    /\ dpc' = "noFolder"
    /\ UNCHANGED <<configs, cfgPc, dtree, addedLate>>
    /\ UNCHANGED notDiscover

\* lines 30-34: the tree is emptied and findConfigFiles is awaited
DiscoverClear ==
    /\ dpc = "call"
    /\ dpc' = "find"
    /\ dtree' = {}
    /\ UNCHANGED <<configs, cfgPc, addedLate>>
    /\ UNCHANGED notDiscover

\* lines 34-37: findConfigFiles has resolved; forEach calls the async callback
\* for every config file, each runs up to its first await (loadConfig, line 50)
\* and returns a promise that forEach drops; then discoverTests returns
DiscoverStart ==
    /\ dpc = "find"
    /\ \E n \in 0..MaxConfigs :
       \E found \in [1..n -> [groups : 0..MaxGroups, files : 0..MaxFiles]] :
          /\ configs' = found
          /\ cfgPc' = [c \in 1..n |-> At("load", 0, 0)]
    /\ dpc' = "resolved"
    /\ UNCHANGED <<dtree, addedLate>>
    /\ UNCHANGED notDiscover

\* lines 50-66: loadConfig has resolved
ConfigLoaded(c) ==
    /\ cfgPc[c].at = "load"
    /\ NextGroup(c, 0, dtree)
    /\ addedLate' = (addedLate \/ (dpc = "resolved" /\ dtree' # dtree))
    /\ UNCHANGED <<dpc, configs>>
    /\ UNCHANGED notDiscover

\* lines 91-108: findFiles has resolved; the first file item is added to the
\* group and discoverTestsFromFile is called, or there is no file
FilesFound(c) ==
    /\ cfgPc[c].at = "findFiles"
    /\ IF configs[c].files > 0
       THEN /\ dtree' = dtree \cup {FileItem(c, cfgPc[c].g, 1)}
            /\ cfgPc' = [cfgPc EXCEPT ![c] = At("mocha", cfgPc[c].g, 1)]
       ELSE NextGroup(c, cfgPc[c].g, dtree)
    /\ addedLate' = (addedLate \/ (dpc = "resolved" /\ dtree' # dtree))
    /\ UNCHANGED <<dpc, configs>>
    /\ UNCHANGED notDiscover

\* lines 92-108 and 121-123: discoverTestsFromFile has returned, with the
\* suite and test items added below the file or without; the next file
\* follows, or the next group
FileDiscovered(c) ==
    /\ cfgPc[c].at = "mocha"
    /\ \E hasReport \in BOOLEAN :
         LET g == cfgPc[c].g
             f == cfgPc[c].f
             tree0 == IF hasReport THEN dtree \cup {NestedItem(c, g, f)} ELSE dtree
         IN IF f < configs[c].files
            THEN /\ dtree' = tree0 \cup {FileItem(c, g, f + 1)}
                 /\ cfgPc' = [cfgPc EXCEPT ![c] = At("mocha", g, f + 1)]
            ELSE NextGroup(c, g, tree0)
    /\ addedLate' = (addedLate \/ (dpc = "resolved" /\ dtree' # dtree))
    /\ UNCHANGED <<dpc, configs>>
    /\ UNCHANGED notDiscover

\* discoverTests() is called: by the refresh or resolve handler or by the file
\* watcher (testController.ts, lines 37-48), on an empty tree or on the tree
\* of an earlier discovery
InitDiscover ==
    /\ CoreIdle
    /\ PopulateIdle
    /\ MochaIdle
    /\ RunIdle
    /\ WtrIdle
    /\ dpc = "call"
    /\ configs = <<>>
    /\ cfgPc = <<>>
    /\ dtree \in {{}, {StaleItem}}
    /\ addedLate = FALSE

NextDiscover ==
    \/ DiscoverNoFolder
    \/ DiscoverClear
    \/ DiscoverStart
    \/ \E c \in DOMAIN cfgPc : ConfigLoaded(c)
    \/ \E c \in DOMAIN cfgPc : FilesFound(c)
    \/ \E c \in DOMAIN cfgPc : FileDiscovered(c)

SpecDiscover == InitDiscover /\ [][NextDiscover]_vars

\* ====== TestRunner.parseOutput and executeWebTestRunner (logger.ts, lines 104-227)
notWtr == <<coreVars, populateVars, mochaVars, runVars, discoverVars>>

\* The output of web-test-runner, as a sequence of units: "RT" is the thirteen
\* characters "Running tests", "P" the seven characters " passed", "F" the
\* seven characters " failed"; a dot, the digits 0 and 1 and the newline are
\* single characters; "x" is other text.
OutputUnits == {"RT", ".", "0", "1", "P", "F", NL}
IsDigit(u) == u \in {"0", "1"}

\* what the process writes: the units, and the line "Running tests..." that
\* web-test-runner prints when it starts a run
OutputPieces == OutputUnits \cup {"Running tests..."}
RECURSIVE Written(_)
Written(pieces) ==
    IF pieces = <<>> THEN <<>>
    ELSE (IF Head(pieces) = "Running tests..." THEN <<"RT", ".", ".", ".">>
          ELSE <<Head(pieces)>>) \o Written(Tail(pieces))
IsWord(u) == u \in {"RT", "P", "F"}

\* The three dots of /Running tests.../g (line 179) are not escaped: each
\* matches any character but a line terminator.  Wild(text, j, need) matches
\* need of them from unit j on; a word they reach is cut, and what is left of
\* it is other text.
RECURSIVE Wild(_, _, _)
Wild(text, j, need) ==
    IF need = 0 THEN [ok |-> TRUE, rest |-> SubSeq(text, j, Len(text))]
    ELSE IF j > Len(text) \/ text[j] = NL THEN [ok |-> FALSE, rest |-> <<>>]
    ELSE IF IsWord(text[j]) THEN [ok |-> TRUE, rest |-> <<"x">> \o SubSeq(text, j + 1, Len(text))]
    ELSE Wild(text, j + 1, need - 1)

\* lines 179 and 191: output.split(/Running tests.../g).at(-1), the text after
\* the last match, the matches being taken from left to right
RECURSIVE LastOutput(_)
LastOutput(text) ==
    LET at == {i \in DOMAIN text : text[i] = "RT" /\ Wild(text, i + 1, 3).ok}
    IN IF at = {} THEN text ELSE LastOutput(Wild(text, MinOf(at) + 1, 3).rest)

\* parseInt(digits, 10)
RECURSIVE ParseInt(_)
ParseInt(digits) ==
    IF digits = <<>> THEN 0
    ELSE 10 * ParseInt(SubSeq(digits, 1, Len(digits) - 1))
            + (IF digits[Len(digits)] = "1" THEN 1 ELSE 0)

\* lines 204-208: text.match(/(\d+) passed/) or /(\d+) failed/, the leftmost
\* run of digits that ends at the word, and its value; 0 without a match
CountBefore(text, word) ==
    LET runs == {r \in (DOMAIN text) \X (DOMAIN text) :
                    /\ r[1] <= r[2]
                    /\ \A k \in r[1]..r[2] : IsDigit(text[k])
                    /\ r[2] < Len(text) /\ text[r[2] + 1] = word}
    IN IF runs = {} THEN 0
       ELSE LET first == MinOf({r[1] : r \in runs})
                r == CHOOSE q \in runs : q[1] = first
            IN ParseInt(SubSeq(text, r[1], r[2]))

Message(kind, n) == [kind |-> kind, n |-> n]

\* lines 180-201: the result when no test run is found
RunNotFound ==
    [passed |-> FALSE, testCount |-> 0, passedCount |-> 0, failedCount |-> 0,
     errors |-> <<Message("Test run not found", 0)>>]

\* lines 171-227
ParseOutput(out, errorOutput, success) ==
    LET lastOutput == LastOutput(out)
        passedCount == CountBefore(lastOutput, "P")
        failedCount == CountBefore(lastOutput, "F")
    IN IF lastOutput = <<>> THEN RunNotFound
       ELSE [passed |-> success /\ failedCount = 0,
             testCount |-> passedCount + failedCount,
             passedCount |-> passedCount,
             failedCount |-> failedCount,
             errors |-> (IF errorOutput THEN <<Message("errorOutput", 0)>> ELSE <<>>)
                        \o (IF failedCount > 0 THEN <<Message("test(s) failed", failedCount)>>
                            ELSE <<>>)]

\* lines 149-152: the close handler resolves the promise with the parsed output
WtrClose ==
    /\ wtrPc = "running"
    /\ wtrPc' = "closed"
    /\ wtrResult' = <<ParseOutput(wtrOutput, wtrErrorOutput, wtrSuccess)>>
    /\ UNCHANGED <<wtrOutput, wtrErrorOutput, wtrSuccess>>
    /\ UNCHANGED notWtr

\* the process has written its output and is about to close, with exit code 0
\* or another
InitWtr ==
    /\ CoreIdle
    /\ PopulateIdle
    /\ MochaIdle
    /\ RunIdle
    /\ DiscoverIdle
    /\ \E n \in 0..MaxText : \E pieces \in [1..n -> OutputPieces] :
          wtrOutput = Written(pieces)
    /\ wtrErrorOutput \in BOOLEAN
    /\ wtrSuccess \in BOOLEAN
    /\ wtrResult = <<>>
    /\ wtrPc = "running"

NextWtr == WtrClose

SpecWtr == InitWtr /\ [][NextWtr]_vars

\* ===================================================================== claims
\* ---- HierarchicalReporter, under SpecReporter ----

\* C1: while the non-root suite-begin and suite-end events seen so far are
\* properly nested (root-flagged suite events and test events anywhere in
\* between), the suite stack is never empty, its bottom element is the root
\* suite, and it holds exactly one entry per open suite above the root: after
\* the last suite-end it is exactly <<root>>.
C1_StackKeepsRoot ==
    balanced => /\ Len(suiteStack) = open + 1
                /\ suiteStack[1] = Root

\* two nested suites were opened and both have been closed again
C1_Witness ==
    balanced /\ nBegins = 2 /\ maxOpen = 2 /\ open = 0 /\ suiteStack = <<Root>>

\* C2: when a non-root suite-end arrives while only the root is on the stack,
\* the handler of that event raises a fatal error.
C2_MismatchedExitIsFatal == mismatched => thrown # "none"

\* C3: setResult is called at most once, never before a run-end event, and
\* exactly once when a run-end event has occurred, however many there were.
C3_ReportDeliveredOnce ==
    Len(reports) = IF nRunEnds > 0 THEN 1 ELSE 0

\* a second run-end event has arrived
C3_Witness == nRunEnds = 2 /\ Len(reports) = 1

\* C4: for a properly nested event sequence, the number of test nodes in the
\* tree of the delivered report equals the number of test events observed.
C4_TestCountMatchesEvents ==
    (balanced /\ Len(reports) > 0) => TestCount(reports[1].root) = nTests

\* a report was delivered whose tree holds a test in a nested suite and one more
C4_Witness ==
    /\ balanced /\ Len(reports) > 0 /\ nTests = 2
    /\ \E i \in 1..Len(tests) : tests[i].parent # Root /\ tests[i].state = "pending"

\* C5: for a properly nested event sequence, the depth of the suite tree of the
\* delivered report (root at depth 0) equals the largest number of non-root
\* suites that were open at the same time.
C5_DepthMatchesNesting ==
    (balanced /\ Len(reports) > 0) => Depth(reports[1].root) = maxOpen

\* a report was delivered for a run with a suite inside a suite
C5_Witness ==
    balanced /\ Len(reports) > 0 /\ maxOpen = 2 /\ open = 0

\* ---- parseTestResults, under SpecParser ----
\* what the pieces of a text say, to state the claims' cases
FailedTitles(kind) ==
    CASE kind = "FailA" -> {TitleA}
      [] kind = "FailAB" -> {TitleA, TitleB}
      [] OTHER -> {}

PassedTitles(kind) ==
    CASE kind = "PassA" -> {TitleA}
      [] kind = "AnsiPassB" -> {TitleB}
      [] OTHER -> {}

BlockKinds == {"BlockA", "BlockB"}
BlockTitle(kind) == IF kind = "BlockA" THEN TitleA ELSE TitleB
BlockBody(kind) == IF kind = "BlockA" THEN BodyA ELSE BodyB

\* title t has a failed result line before piece j and is on no passed result line
FailedBefore(t, j) ==
    /\ \E i \in 1..(j - 1) : t \in FailedTitles(segs[i])
    /\ \A i \in 1..Len(segs) : t \notin PassedTitles(segs[i])

\* the entry of title t is a failed one whose message is msg
FailedWith(t, msg) ==
    /\ t \in DOMAIN results
    /\ ~results[t].passed
    /\ results[t].hasMessage
    /\ results[t].message = msg

\* C6: a failed result line for T, later a failure block for T (the only one of
\* the text for T) with message lines and then a line starting with a browser
\* label: the entry of T is failed and its message is the trimmed body of the block.
C6_BlockMessageAttached ==
    pc = "done" =>
        \A j \in 1..(Len(segs) - 1) :
            ( /\ segs[j] \in BlockKinds
              /\ segs[j + 1] = "Label"
              /\ \A i \in 1..Len(segs) : segs[i] = segs[j] => i = j
              /\ FailedBefore(BlockTitle(segs[j]), j) )
            => FailedWith(BlockTitle(segs[j]), BlockBody(segs[j]))

\* C6, where it does hold: the same with the block being the only failure
\* block of the text.
C6_LoneBlockMessageAttached ==
    pc = "done" =>
        \A j \in 1..(Len(segs) - 1) :
            ( /\ segs[j] \in BlockKinds
              /\ segs[j + 1] = "Label"
              /\ \A i \in 1..Len(segs) : segs[i] \in BlockKinds => i = j
              /\ FailedBefore(BlockTitle(segs[j]), j) )
            => FailedWith(BlockTitle(segs[j]), BlockBody(segs[j]))

\* C7: two failure blocks for two different failed tests, one directly after
\* the other and the second followed by a browser-label line: each test gets
\* the body of its own block as its message.
C7_AdjacentBlocksDoNotMerge ==
    pc = "done" =>
        \A j \in 1..(Len(segs) - 2) :
            ( /\ segs[j] \in BlockKinds
              /\ segs[j + 1] \in BlockKinds \ {segs[j]}
              /\ segs[j + 2] = "Label"
              /\ FailedBefore(TitleA, j)
              /\ FailedBefore(TitleB, j) )
            => /\ FailedWith(BlockTitle(segs[j]), BlockBody(segs[j]))
               /\ FailedWith(BlockTitle(segs[j + 1]), BlockBody(segs[j + 1]))

\* C8: a failure block for a failed test that is the only block of the text and
\* is followed by nothing but the end of the text, with or without newlines
\* before it: the test gets the body of the block as its message.
C8_EndOfTextTerminates ==
    pc = "done" =>
        \A j \in 1..Len(segs) :
            ( /\ segs[j] \in BlockKinds
              /\ \A i \in 1..Len(segs) : segs[i] \in BlockKinds => i = j
              /\ \A i \in (j + 1)..Len(segs) : segs[i] = "Blank"
              /\ FailedBefore(BlockTitle(segs[j]), j) )
            => FailedWith(BlockTitle(segs[j]), BlockBody(segs[j]))

\* C8, where it does hold: the same with at least one newline between the block
\* and the end of the text.
C8_NewlineThenEndTerminates ==
    pc = "done" =>
        \A j \in 1..(Len(segs) - 1) :
            ( /\ segs[j] \in BlockKinds
              /\ \A i \in 1..Len(segs) : segs[i] \in BlockKinds => i = j
              /\ \A i \in (j + 1)..Len(segs) : segs[i] = "Blank"
              /\ FailedBefore(BlockTitle(segs[j]), j) )
            => FailedWith(BlockTitle(segs[j]), BlockBody(segs[j]))

\* the map the loop over the lines builds from the cleaned text
LineResults == ParseLinesFrom(<<>>, SplitLines(cleanOutput), 1)

\* C9: during and after the failure-block pass the keys of the map and every
\* passed flag are those the result lines gave; a block whose short title is
\* not a key leaves no record: when no key is the title of a block, the map is
\* the one the result lines gave.
C9_FailurePassKeepsKeys ==
    pc \in {"failures", "done"} =>
        LET given == LineResults
        IN /\ DOMAIN results = DOMAIN given
           /\ \A k \in DOMAIN results : results[k].passed = given[k].passed
           /\ (\A i \in 1..Len(segs) :
                   segs[i] \in BlockKinds => BlockTitle(segs[i]) \notin DOMAIN results)
              => results = given

\* the call has returned for a text whose first failure block, closed by a
\* browser-label line, names a test that is not a key, after a result line
C9_Witness ==
    /\ pc = "done"
    /\ Len(segs) = 3 /\ segs[1] = "PassA" /\ segs[2] = "BlockB" /\ segs[3] = "Label"
    /\ TitleA \in DOMAIN results /\ TitleB \notin DOMAIN results

\* C10: every key of the returned map is the title of a result line (a line
\* whose symbol is the check or the cross glyph); no line of continuation text
\* becomes a key.
C10_KeysAreResultTitles ==
    pc = "done" =>
        DOMAIN results \subseteq
            UNION {FailedTitles(segs[i]) \cup PassedTitles(segs[i]) : i \in 1..Len(segs)}

\* ---- the shape of a result line, read off the line itself ----
\* the number of whitespace characters the line starts with
LeadingSpaces(line) ==
    Cardinality({k \in 1..Len(line) : \A i \in 1..k : IsSpace(line[i])})

\* leading whitespace, one symbol that is not whitespace, whitespace, and then
\* text free of line terminators up to the end of the line
HasResultShape(line) ==
    LET k == LeadingSpaces(line)
        text == {i \in (k + 2)..Len(line) : ~IsSpace(line[i])}
        from == IF text = {} THEN Len(line) ELSE MinOf(text)
    IN /\ k >= 1
       /\ Len(line) >= k + 3
       /\ IsSpace(line[k + 2])
       /\ \A i \in from..Len(line) : IsDot(line[i])

ShapeSymbol(line) == line[LeadingSpaces(line) + 1]
ShapeTitle(line) == Trim(SubSeq(line, LeadingSpaces(line) + 2, Len(line)))

CleanLines == SplitLines(cleanOutput)
ResultLines == {i \in 1..Len(CleanLines) : HasResultShape(CleanLines[i])}
LinesTitled(t) == {i \in ResultLines : ShapeTitle(CleanLines[i]) = t}

\* C11: the keys of the returned map are the trimmed titles of the lines that
\* have the shape of a result line, one entry per distinct title; the entry of a
\* title that is on one such line is passed exactly when the symbol of that line
\* is the check glyph, any other symbol giving passed = false; and no entry has a
\* message when the text holds no failure block.
C11_SymbolDecidesPassed ==
    pc = "done" =>
        LET lines == CleanLines
            shaped == {i \in 1..Len(lines) : HasResultShape(lines[i])}
            title == [i \in shaped |-> ShapeTitle(lines[i])]
        IN /\ DOMAIN results = {title[i] : i \in shaped}
           /\ \A i \in shaped :
                  (\A j \in shaped : title[j] = title[i] => j = i)
                  => results[title[i]].passed = (ShapeSymbol(lines[i]) = CHECK)
           /\ (\A i \in 1..Len(segs) : segs[i] \notin BlockKinds)
              => \A t \in DOMAIN results : ~results[t].hasMessage

\* a passed line, a line with the cross glyph and a line with another symbol
\* (the letter I), each the only line of its title, have been parsed
C11_Witness ==
    /\ pc = "done"
    /\ segs = <<"PassA", "BlockB">>
    /\ DOMAIN results = {TitleA, <<"q">>}
    /\ results[TitleA].passed /\ ~results[<<"q">>].passed

\* a passed and a failed line and no failure block: the entries have no message
C11_WitnessNoBlock ==
    /\ pc = "done"
    /\ segs = <<"AnsiPassB", "FailA">>
    /\ results[TitleB].passed /\ ~results[TitleA].passed
    /\ ~results[TitleA].hasMessage /\ ~results[TitleB].hasMessage

\* ---- parseTestResults as a function of the text ----
RECURSIVE FailureLoop(_, _, _)
\* lines 41-49: the while loop, from lastIndex = from
FailureLoop(map, s, from) ==
    LET m == FailureExec(s, from)
    IN IF m.found THEN FailureLoop(AttachFailure(map, m.header, m.body), s, m.next)
       ELSE map

\* the map parseTestResults(s) returns
ParseText(s) ==
    FailureLoop(ParseLinesFrom(<<>>, SplitLines(StripAnsi(s)), 1), StripAnsi(s), 1)

\* The end of the escape sequence that starts at i (ESC, "[", parameter
\* characters, one final character of any kind), or 0 when there is none.
EscapeEnd(s, i) ==
    IF i + 1 <= Len(s) /\ s[i] = ESC /\ s[i + 1] = "["
    THEN LET stops == {j \in (i + 2)..Len(s) : ~IsAnsiParam(s[j])}
         IN IF stops # {} THEN MinOf(stops) ELSE 0
    ELSE 0

RECURSIVE DeleteEscapesFrom(_, _)
DeleteEscapesFrom(s, i) ==
    IF i > Len(s) THEN <<>>
    ELSE IF EscapeEnd(s, i) > 0 THEN DeleteEscapesFrom(s, EscapeEnd(s, i) + 1)
    ELSE <<s[i]>> \o DeleteEscapesFrom(s, i + 1)

\* the text with every escape sequence deleted
DeleteEscapes(s) == DeleteEscapesFrom(s, 1)

\* C12: the map returned for a text is the map returned for the text with every
\* escape sequence deleted, whatever the kind of the sequence (colour, cursor
\* movement, line erase).
C12_EscapesDoNotMatter ==
    pc = "done" => results = ParseText(DeleteEscapes(output))

\* C12, for colours: the map returned for a text whose escape sequences are all
\* colour sequences (ending in m) is the map returned for the text without them.
C12_ColourEscapesDoNotMatter ==
    (pc = "done" /\ \A i \in 1..Len(segs) : segs[i] # "ErasePassB")
        => results = ParseText(DeleteEscapes(output))

\* a text with a colour sequence has been parsed, and its map has an entry
C12_ColourWitness ==
    /\ pc = "done"
    /\ \E i \in 1..Len(segs) : segs[i] = "AnsiPassB"
    /\ output # DeleteEscapes(output)
    /\ TitleB \in DOMAIN results

\* C13: a title that is on several result lines has one entry, and its passed
\* flag is the one the last of these lines gives.
C13_LastOccurrenceWins ==
    pc = "done" =>
        LET lines == CleanLines
            shaped == {i \in 1..Len(lines) : HasResultShape(lines[i])}
            title == [i \in shaped |-> ShapeTitle(lines[i])]
        IN \A i \in shaped :
               LET last == MaxOf({j \in shaped : title[j] = title[i]})
               IN /\ title[i] \in DOMAIN results
                  /\ results[title[i]].passed = (ShapeSymbol(lines[last]) = CHECK)

\* a title is on several result lines, and an earlier one of them gives the
\* opposite flag
C13_Witness ==
    /\ pc = "done"
    /\ \E t \in DOMAIN results :
            /\ Cardinality(LinesTitled(t)) >= 2
            /\ \E i \in LinesTitled(t) :
                    (ShapeSymbol(CleanLines[i]) = CHECK) # results[t].passed

\* C14: a text made only of failure blocks, unindented lines and blank lines
\* (the empty text included) has no result line, and the call returns an empty map.
C14_NoResultLineEmptyMap ==
    (pc = "done" /\ \A i \in 1..Len(segs) : segs[i] \in BlockKinds \cup {"Label", "Blank"})
        => results = <<>>

\* C14, for the lines the pattern takes as result lines: a text none of whose
\* lines has the shape of a result line gives an empty map.
C14_NoShapedLineEmptyMap ==
    (pc = "done" /\ ResultLines = {}) => results = <<>>

\* a text with a failure block and a label line, and no line of the shape of a
\* result line, has been parsed
C14_ShapedWitness ==
    /\ pc = "done"
    /\ segs = <<"BlockA", "Label">>
    /\ ResultLines = {}
    /\ results = <<>>

\* ---- several calls of parseTestResults, under SpecParserCalls ----
\* C15: two calls with the same text return equal maps (same keys, same passed
\* flags, same messages), whatever was parsed before or in between.
C15_SameTextSameMap ==
    \A i, j \in DOMAIN calls :
        calls[i].segs = calls[j].segs => calls[i].results = calls[j].results

\* a text with a failure message was parsed, then another text that gave another
\* map, then the first text again
C15_Witness ==
    /\ Len(calls) = 3
    /\ calls[1].segs = <<"FailA", "BlockA", "Label">>
    /\ calls[3].segs = calls[1].segs
    /\ calls[2].segs = <<"PassA">>
    /\ calls[1].results[TitleA].hasMessage
    /\ calls[2].results[TitleA].passed

\* ---- updateTestItemResults, under SpecCorrelator ----
IsKey(i) == items[i].label \in DOMAIN resultMap

\* the outcomes item i has received, as <<state, message>>
OutcomesOf(i) ==
    {<<outcomes[p].state, outcomes[p].message>> :
        p \in {q \in DOMAIN outcomes : outcomes[q].item = i}}

RECURSIVE Ancestors(_)
\* the items above item i and below the target item
Ancestors(i) ==
    IF items[i].parent = Target THEN {}
    ELSE {items[i].parent} \cup Ancestors(items[i].parent)

\* C16: when the call has returned, every direct child of the target item whose
\* label is a key has received the outcome of the key: passed when the entry is
\* passed, else failed with the message of the entry, or with "Test failed" when
\* the entry has no message or an empty one.
C16_DirectChildGetsOutcome ==
    cpc = "done" =>
        \A i \in DOMAIN items :
            (items[i].parent = Target /\ IsKey(i)) =>
                LET entry == resultMap[items[i].label]
                IN OutcomesOf(i) =
                       { IF entry.passed THEN <<"passed", <<>>>>
                         ELSE IF entry.hasMessage /\ entry.message # <<>>
                              THEN <<"failed", entry.message>>
                              ELSE <<"failed", DefaultMessage>> }

\* the call has returned for a target with a child failed with the message of
\* its entry and a child failed with the default message, its entry having an
\* empty message
C16_Witness ==
    /\ cpc = "done"
    /\ \E i, j \in DOMAIN items :
            /\ items[i].parent = Target /\ items[j].parent = Target
            /\ OutcomesOf(i) = {<<"failed", <<"x">>>>}
            /\ OutcomesOf(j) = {<<"failed", DefaultMessage>>}
            /\ resultMap[items[j].label].hasMessage

\* C17: no item below an item whose label is a key receives an outcome; when the
\* call has returned, every item whose label is a key and that lies below no such
\* item has received one (the subtrees of the siblings are searched); and no item
\* receives two outcomes.
C17_MatchStopsDescent ==
    /\ \A p \in DOMAIN outcomes :
           \A a \in Ancestors(outcomes[p].item) : ~IsKey(a)
    /\ \A p, q \in DOMAIN outcomes : outcomes[p].item = outcomes[q].item => p = q
    /\ cpc = "done" =>
           \A i \in DOMAIN items :
               (IsKey(i) /\ \A a \in Ancestors(i) : ~IsKey(a))
               => \E p \in DOMAIN outcomes : outcomes[p].item = i

\* the call has returned; a matched child has a descendant whose label is a key,
\* left without outcome, and a later sibling whose subtree holds an item that
\* received one
C17_Witness ==
    /\ cpc = "done"
    /\ \E i, j, k \in DOMAIN items :
            /\ items[i].parent = Target /\ IsKey(i) /\ OutcomesOf(i) # {}
            /\ items[j].parent = i /\ IsKey(j) /\ OutcomesOf(j) = {}
            /\ items[k].parent = Target /\ k > i /\ OutcomesOf(k) # {}

\* C18: an item whose label is not a key never receives an outcome, whether or
\* not an item below it does.
C18_UnmatchedLeftAlone ==
    \A p \in DOMAIN outcomes : IsKey(outcomes[p].item)

\* the call has returned; an item whose label is not a key has a child that
\* received an outcome, another has none below it that did, and both are
\* without outcome
C18_Witness ==
    /\ cpc = "done"
    /\ \E i, j, k \in DOMAIN items :
            /\ ~IsKey(i) /\ OutcomesOf(i) = {}
            /\ items[j].parent = i /\ OutcomesOf(j) # {}
            /\ ~IsKey(k) /\ k # i /\ OutcomesOf(k) = {}
            /\ \A d \in DOMAIN items : k \in Ancestors(d) => OutcomesOf(d) = {}

\* C19, as stated: when the call has returned, two items below the target with
\* the same label, a key, have both received the same outcome.
C19_DuplicatesSameOutcome ==
    cpc = "done" =>
        \A i, j \in DOMAIN items :
            (items[i].label = items[j].label /\ IsKey(i))
            => (OutcomesOf(i) # {} /\ OutcomesOf(i) = OutcomesOf(j))

\* C19, amended: when the call has returned, two items below the target with
\* the same label, a key, neither of them below an item whose label is a key,
\* have both received the same outcome.
C19_ReachedDuplicatesSameOutcome ==
    cpc = "done" =>
        \A i, j \in DOMAIN items :
            ( /\ items[i].label = items[j].label /\ IsKey(i)
              /\ \A a \in Ancestors(i) \cup Ancestors(j) : ~IsKey(a) )
            => (OutcomesOf(i) # {} /\ OutcomesOf(i) = OutcomesOf(j))

\* the call has returned; two items in different suites have the same label,
\* and both have received the failed outcome of the key
C19_Witness ==
    /\ cpc = "done"
    /\ \E i, j \in DOMAIN items :
            /\ i # j /\ items[i].label = items[j].label
            /\ items[i].parent # items[j].parent
            /\ OutcomesOf(i) = {<<"failed", <<"x">>>>}
            /\ OutcomesOf(j) = OutcomesOf(i)

\* C20: no step of the call changes the items (their number, order, labels,
\* parents) or the result map; a step changes the recorded outcomes and the
\* position of the walk only.
C20_TreeAndMapUnchanged ==
    [][items' = items /\ resultMap' = resultMap]_vars

\* the call has returned after recording outcomes on a tree of three items
C20_Witness ==
    /\ cpc = "done"
    /\ Len(items) = MaxItems
    /\ Len(outcomes) >= 2

\* ---- HierarchicalReporter and the event stream, under SpecReporter ----
\* the suite the stream says is the innermost open one
InnermostOpen == IF openStack = <<>> THEN Root ELSE openStack[Len(openStack)]

\* C23: every test event appends one test node, and appends it to the innermost
\* suite open at that moment: the most recently begun non-root suite that has
\* not ended, or the root when no non-root suite is open.
C23_TestGoesToInnermostOpen ==
    [][nTests' = nTests + 1 =>
          /\ Len(tests') = Len(tests) + 1
          /\ tests'[Len(tests')].parent = InnermostOpen]_vars

\* C23, for properly nested suite events: while no suite-end has arrived without
\* an open suite, every test event appends its node to the innermost open suite.
C23_NestedTestGoesToInnermostOpen ==
    [][(balanced /\ nTests' = nTests + 1) =>
          /\ Len(tests') = Len(tests) + 1
          /\ tests'[Len(tests')].parent = InnermostOpen]_vars

\* a suite got a test, ended, and the next test went to the root
C23_NestedWitness ==
    /\ balanced /\ nBegins = 1 /\ open = 0
    /\ Len(tests) = 2 /\ tests[1].parent = 1 /\ tests[2].parent = Root

\* C24: the first run-begin event sets the suite counter to zero; a non-root
\* suite-begin adds one to it; a root-flagged suite-begin or suite-end changes
\* neither the counter nor the stack nor the tree; and the report delivered for
\* a session that started with run-begin has stats.suites equal to the number of
\* non-root suite-begin events since then, which is the number of suite nodes
\* of the tree.
C24_SuiteCounter ==
    [][ /\ (started' /\ ~started) => suiteCount' = 0
        /\ nBegins' = nBegins + 1 => suiteCount' = suiteCount + 1
        /\ ((\E t \in Titles : SuiteBegin(TRUE, t)) \/ SuiteEnd(TRUE))
              => UNCHANGED <<suiteCount, suiteStack, suites, tests>>
        /\ (Len(reports') = Len(reports) + 1 /\ started /\ nSince = nBegins)
              => /\ reports'[Len(reports')].suites = nSince
                 /\ nSince = Len(suites) ]_vars

\* C24, for properly nested suite events.
C24_NestedSuiteCounter ==
    [][ /\ (started' /\ ~started) => suiteCount' = 0
        /\ nBegins' = nBegins + 1 => suiteCount' = suiteCount + 1
        /\ ((\E t \in Titles : SuiteBegin(TRUE, t)) \/ SuiteEnd(TRUE))
              => UNCHANGED <<suiteCount, suiteStack, suites, tests>>
        /\ (Len(reports') = Len(reports) + 1 /\ started /\ nSince = nBegins /\ balanced)
              => /\ reports'[Len(reports')].suites = nSince
                 /\ nSince = Len(suites) ]_vars

\* a session that started with run-begin and had two suites has delivered its report
C24_NestedWitness ==
    /\ balanced /\ started /\ nSince = 2 /\ nBegins = 2
    /\ Len(reports) = 1 /\ reports[1].suites = 2 /\ Len(suites) = 2

\* the test node a step has appended
Appended == tests'[Len(tests')]

\* C25: after every step, a test node with an error is a failed one; the node a
\* pass event creates is passed and one a pending event creates is pending,
\* both without error; the node a fail event creates is failed and has an error
\* exactly when the event came with an error value.
C25_ErrorOnlyOnFailed ==
    [][ /\ \A i \in DOMAIN tests' : tests'[i].error => tests'[i].state = "failed"
        /\ Len(tests') > Len(tests) =>
              \A title \in Titles :
                 /\ TestPass(title) => (Appended.state = "passed" /\ ~Appended.error)
                 /\ TestPending(title) => (Appended.state = "pending" /\ ~Appended.error)
                 /\ \A err \in BOOLEAN :
                       TestFail(title, err) => (Appended.state = "failed" /\ Appended.error = err)
      ]_vars

\* a fail event with an error value and one without have each left their node
C25_Witness ==
    /\ Len(tests) = 2
    /\ tests[1].state = "failed" /\ tests[1].error
    /\ tests[2].state = "failed" /\ ~tests[2].error

\* C26: no step removes, moves or changes a suite node or a test node (title,
\* parent, state and error stay), and a step adds nodes only after the ones
\* that are there, so the children of a suite stay in the order of their events.
C26_TreeOnlyGrows ==
    [][ /\ Len(suites') >= Len(suites)
        /\ \A i \in DOMAIN suites : suites'[i] = suites[i]
        /\ Len(tests') >= Len(tests)
        /\ \A i \in DOMAIN tests : tests'[i] = tests[i] ]_vars

\* two suites and two tests of different kinds are in the tree, and the report
\* has been delivered
C26_Witness ==
    /\ Len(suites) = 2 /\ suites[2].parent = 1
    /\ Len(tests) = 2 /\ tests[1].state # tests[2].state /\ tests[1].parent # tests[2].parent
    /\ Len(reports) = 1

\* ---- whitespace at the end of a result line, under SpecParserLines ----
TrailingKinds == {"PassASpaces", "PassACr"}

\* C27: a result line that ends in whitespace (spaces and a tab, or the carriage
\* return of a CRLF line ending) is recorded, under its title without the
\* whitespace: the title is a key, and no key starts or ends with whitespace.
C27_TrailingWhitespaceHarmless ==
    (pc = "done" /\ \E i \in 1..Len(segs) : segs[i] \in TrailingKinds)
        => /\ TitleA \in DOMAIN results
           /\ \A k \in DOMAIN results : Trim(k) = k

\* C27, for spaces and tabs: a result line that ends in spaces and a tab is
\* recorded under its trimmed title.
C27_TrailingBlanksHarmless ==
    (pc = "done" /\ \E i \in 1..Len(segs) : segs[i] = "PassASpaces")
        => /\ TitleA \in DOMAIN results
           /\ \A k \in DOMAIN results : Trim(k) = k

\* a text whose only result line ends in spaces and a tab has been parsed
C27_BlanksWitness ==
    /\ pc = "done"
    /\ segs = <<"PassASpaces">>
    /\ DOMAIN results = {TitleA} /\ results[TitleA].passed

\* ---- populateTestItemsFromReport, under SpecPopulate ----
RECURSIVE SuiteItemId(_)
\* the id the item of report suite n is to have (the file item for the root)
SuiteItemId(n) ==
    IF n = Root THEN FileId
    ELSE SuiteItemId(report.suites[n].parent) \o <<"::", report.suites[n].title>>

\* the titles of the child suites and child tests of every report node are distinct
TitlesUnique ==
    /\ \A i, j \in DOMAIN report.suites :
           (report.suites[i].parent = report.suites[j].parent
            /\ report.suites[i].title = report.suites[j].title) => i = j
    /\ \A i, j \in DOMAIN report.tests :
           (report.tests[i].parent = report.tests[j].parent
            /\ report.tests[i].title = report.tests[j].title) => i = j
    /\ \A i \in DOMAIN report.suites : \A j \in DOMAIN report.tests :
           report.suites[i].parent = report.tests[j].parent
           => report.suites[i].title # report.tests[j].title

CreatedFor(kind, n) == {k \in DOMAIN created : created[k].kind = kind /\ created[k].node = n}

\* C21: when the call has returned, one item has been created per suite and per
\* test of the report, under the item of the node's parent, labelled with the
\* title and with the id of the parent item joined by "::" to the title; the
\* items of the child suites of a node were created before the items of its
\* tests; and when the titles are unique within each parent the tree holds
\* exactly the created items, as many as the report has suites and tests.
C21_TreeMirrorsReport ==
    ppc = "done" =>
        /\ Len(created) = Len(report.suites) + Len(report.tests)
        /\ \A n \in DOMAIN report.suites :
               \E k \in DOMAIN created :
                   /\ CreatedFor("suite", n) = {k}
                   /\ created[k].parent = SuiteItemId(report.suites[n].parent)
                   /\ created[k].id = created[k].parent \o <<"::", report.suites[n].title>>
                   /\ created[k].label = report.suites[n].title
        /\ \A n \in DOMAIN report.tests :
               \E k \in DOMAIN created :
                   /\ CreatedFor("test", n) = {k}
                   /\ created[k].parent = SuiteItemId(report.tests[n].parent)
                   /\ created[k].id = created[k].parent \o <<"::", report.tests[n].title>>
                   /\ created[k].label = report.tests[n].title
        /\ \A k1, k2 \in DOMAIN created :
               ( /\ created[k1].kind = "suite" /\ created[k2].kind = "test"
                 /\ report.suites[created[k1].node].parent
                        = report.tests[created[k2].node].parent ) => k1 < k2
        /\ TitlesUnique =>
               /\ Len(tree) = Len(report.suites) + Len(report.tests)
               /\ {tree[k] : k \in DOMAIN tree}
                      = {[id |-> created[k].id, label |-> created[k].label,
                          parent |-> created[k].parent] : k \in DOMAIN created}

\* the call has returned for a report with a suite in a suite, a test in the
\* inner suite and a test in the root, all titles unique within their parent
C21_Witness ==
    /\ ppc = "done"
    /\ TitlesUnique
    /\ Len(report.suites) = 2 /\ report.suites[2].parent = 1
    /\ Len(report.tests) = 2 /\ report.tests[1].parent = 2 /\ report.tests[2].parent = Root
    /\ Len(tree) = 4

\* ---- runMochaForFile, under SpecMocha ----
\* the output holds a report: a brace-delimited part that is valid JSON
UsableReport == JsonMatch(mochaOutput) # <<>> /\ JsonParses(JsonMatch(mochaOutput))

\* C22: when the process has ended without a usable report (no output, no
\* brace-delimited part, or one that is not valid JSON), the close handler has
\* thrown nothing and the promise is settled with null.
C22_NoReportGivesNull ==
    (mpc = "closed" /\ ~UsableReport) => (promise = "null" /\ ~closeThrew)

\* C22, without braces: when the process has ended and its output has no
\* brace-delimited part, the promise is settled with null and nothing was
\* thrown; discoverTestsFromFile then ends with "no tests found".
C22_NoBracesGivesNull ==
    (mpc = "closed" /\ JsonMatch(mochaOutput) = <<>>)
        => /\ promise = "null" /\ ~closeThrew
           /\ fileResult \in {"waiting", "noTests"}

\* the process wrote text without braces and ended, and discoverTestsFromFile
\* has logged that no tests were found
C22_NoBracesWitness ==
    /\ mpc = "closed"
    /\ mochaOutput = <<"text", "}", "text">>
    /\ promise = "null" /\ fileResult = "noTests"

\* ---- the run handler, under SpecRun ----
Ends == {k \in DOMAIN runLog : runLog[k].ev = "end"}

\* what holds at every moment of the handling of a run request; the test
\* files are run in the order of allTests, so the k-th run is that of item k
C28_Safe ==
    /\ Cardinality(Ends) <= 1
    /\ \A k \in Ends : k = Len(runLog)
    /\ rpc \in {"returned", "thrown"} => Cardinality(Ends) = 1
    /\ \A k \in DOMAIN settled :
          settled[k] = "rejected" =>
              /\ \E j \in DOMAIN runLog : runLog[j] = Call("errored", k)
              /\ (rpc \in {"returned", "thrown"} /\ ~cancelObserved)
                     => Len(settled) = allTests /\ ~collectThrew
    /\ cancelObserved => rpc \in {"finally", "returned", "thrown"}

C28_CancelWitness ==
    /\ rpc = "returned"
    /\ allTests = 2
    /\ cancelObserved
    /\ Len(settled) = 1
    /\ Cardinality(Ends) = 1

\* ---- discoverTests, under SpecDiscover ----
\* the group and file items that the processing of config file c puts in the tree
ConfigItems(c) ==
    {GroupItem(c, g) : g \in 1..configs[c].groups}
        \cup {FileItem(c, g, f) : g \in 1..configs[c].groups, f \in 1..configs[c].files}

\* the suite and test items that it may put below the file items
ConfigNested(c) ==
    {NestedItem(c, g, f) : g \in 1..configs[c].groups, f \in 1..configs[c].files}

\* C30: once the promise of discoverTests() has resolved every config file
\* found has been processed to its end, its group and file items are in the
\* tree, and no item has been added to the tree since.
C30_ResolvedMeansProcessed ==
    dpc \in {"noFolder", "resolved"} =>
        /\ \A c \in DOMAIN cfgPc : cfgPc[c].at = "done" /\ ConfigItems(c) \subseteq dtree
        /\ ~addedLate

\* C30, as the code has it: when the promise of discoverTests() has resolved
\* in a workspace folder the callback of every config file found has been called, and once all the
\* callbacks have returned the group and file items of every config file are
\* in the tree and nothing else is.
C30_ProcessedInTheEnd ==
    dpc = "resolved" =>
        /\ DOMAIN cfgPc = DOMAIN configs
        /\ (\A c \in DOMAIN cfgPc : cfgPc[c].at = "done")
              => /\ \A c \in DOMAIN cfgPc : ConfigItems(c) \subseteq dtree
                 /\ \A id \in dtree : \E c \in DOMAIN cfgPc :
                        id \in ConfigItems(c) \cup ConfigNested(c)

\* two config files with a group of one file each have been processed, after
\* the promise had resolved
C30_ProcessedWitness ==
    /\ dpc = "resolved"
    /\ Len(configs) = 2
    /\ \A c \in DOMAIN cfgPc : cfgPc[c].at = "done" /\ configs[c] = [groups |-> 1, files |-> 1]
    /\ addedLate
    /\ NestedItem(2, 1, 1) \in dtree

\* ---- TestRunner.parseOutput, under SpecWtr ----
\* the text after the last "Running tests..." of the output, the whole output
\* when there is none
AfterLastMarker ==
    LET at == {i \in DOMAIN wtrOutput :
                  /\ i + 3 <= Len(wtrOutput)
                  /\ SubSeq(wtrOutput, i, i + 3) = <<"RT", ".", ".", ".">>}
    IN IF at = {} THEN wtrOutput
       ELSE SubSeq(wtrOutput, MaxOf(at) + 4, Len(wtrOutput))

\* the result is as the claim describes it
AsClaimed(r) ==
    /\ r.testCount = r.passedCount + r.failedCount
    /\ r.passed => (wtrSuccess /\ r.failedCount = 0)
    /\ LET after == AfterLastMarker
       IN IF after = <<>>
          THEN r = RunNotFound
          ELSE /\ r.passedCount = CountBefore(after, "P")
               /\ r.failedCount = CountBefore(after, "F")

\* C29: in the result of every run testCount = passedCount + failedCount and
\* passed implies exit code 0 and failedCount = 0; the counts are those of the
\* text after the last "Running tests..." marker, and when that text is empty
\* the result is passed = false, zero counts and 'Test run not found'.
C29_ResultOfRun ==
    wtrPc = "closed" => AsClaimed(wtrResult[1])

\* every "Running tests" of the output is followed by its three dots
OnlyFullMarkers ==
    \A i \in DOMAIN wtrOutput :
        wtrOutput[i] = "RT" =>
            /\ i + 3 <= Len(wtrOutput)
            /\ \A k \in 1..3 : wtrOutput[i + k] = "."

\* C29, for outputs in which "Running tests" occurs only as "Running tests...":
\* the result is as claimed.
C29_ResultOfRunWithFullMarkers ==
    (wtrPc = "closed" /\ OnlyFullMarkers) => AsClaimed(wtrResult[1])

\* an output with a marker and a later "Running tests" without dots: the
\* counts are not those of the text after the marker
BareMarkerSeen ==
    /\ wtrPc = "closed"
    /\ wtrOutput = <<"RT", ".", ".", ".", "1", "P", "RT", "F">>
    /\ wtrResult[1].passedCount = 0

\* for every output the sum and the implication hold, and an empty output
\* gives 'Test run not found'
C29_SumAndPassed ==
    wtrPc = "closed" =>
        /\ wtrResult[1].testCount = wtrResult[1].passedCount + wtrResult[1].failedCount
        /\ wtrResult[1].passed => (wtrSuccess /\ wtrResult[1].failedCount = 0)
        /\ wtrOutput = <<>> => wtrResult[1] = RunNotFound

\* the output ends with the marker and the process exited with code 0
C29_MarkerLastWitness ==
    /\ wtrPc = "closed"
    /\ wtrOutput = <<"1", "P", NL, "RT", ".", ".", ".">>
    /\ wtrSuccess
    /\ wtrResult[1] = RunNotFound

=============================================================================
